---- MODULE Spec2Model ----
(***************************************************************************)
(* Bulk import/export service: the import pipeline (parse, validate,       *)
(* stage, bulk checks, promote, journal, cleanup), the export job and the  *)
(* job state machine kept in the jobs table.                               *)
(*                                                                         *)
(* One worker processes one job.  Every repository call is one step and    *)
(* may return a database error (at most MaxFaults errors in a run).        *)
(* Text values are strings; SQL NULL is the marker NULL; timestamps are    *)
(* kept only as "set" / NULL.  Columns that no rule of the pipeline reads  *)
(* (name, body, tags, timestamps of the target rows) are left out; the     *)
(* input rows always carry valid values for them.                          *)
(***************************************************************************)
EXTENDS Integers, Sequences, FiniteSets, TLC

\* ---------------------------------------------------------------- bounds
MaxRows == 2
MaxFaults == 1
MaxBatchSize == 2
MaxExportRecords == 2

\* ------------------------------------------------------------- constants
NULL == "NULL"

JobStatusPending == "pending"
JobStatusProcessing == "processing"
JobStatusCompleted == "completed"
JobStatusFailed == "failed"
JobStatusCancelled == "cancelled"

JobTypeImport == "import"
JobTypeExport == "export"

ResourceTypeUsers == "users"
ResourceTypeArticles == "articles"
ResourceTypeComments == "comments"
ResourceTypes == {ResourceTypeUsers, ResourceTypeArticles, ResourceTypeComments}

FormatCSV == "csv"
FormatNDJSON == "ndjson"
FormatJSON == "json"

ErrCodeFileParseError == "FILE_PARSE_ERROR"
ErrCodeInvalidUUID == "INVALID_UUID"
ErrCodeMissingField == "MISSING_FIELD"
ErrCodeInvalidEmail == "INVALID_EMAIL"
ErrCodeInvalidRole == "INVALID_ROLE"
ErrCodeInvalidSlug == "INVALID_SLUG"
ErrCodeInvalidAuthor == "INVALID_AUTHOR"
ErrCodeInvalidStatus == "INVALID_STATUS"
ErrCodeInvalidArticle == "INVALID_ARTICLE"
ErrCodeInvalidUser == "INVALID_USER"

RelationalCodes ==
    {"DUPLICATE_EMAIL", "DUPLICATE_SLUG", "DUPLICATE_ID",
     "INVALID_AUTHOR_FK", "INVALID_ARTICLE_FK", "INVALID_USER_FK"}

AllowedUserRoles == {"admin", "reader", "author"}
AllowedArticleStatuses == {"draft", "published", "archived"}

\* -------------------------------------------------------- text alphabet
\* The strings the model files are written with.
UUIDs == {"u1", "u2", "u9", "a1", "a2", "a9", "c1", "c9", "g1", "g2", "g3", "g4"}
\* uuid.New(): the n-th identifier generated by the process.
GenIDs == <<"g1", "g2", "g3", "g4">>

\* strings.ToLower on the alphabet.
ToLower(s) ==
    CASE s = "A@x.io" -> "a@x.io"
      [] s = "S-1" -> "s-1"
      [] s = "S 1" -> "s 1"
      [] s = "Admin" -> "admin"
      [] s = "Draft" -> "draft"
      [] s = "Archived" -> "archived"
      [] OTHER -> s

\* strings.ReplaceAll(s, " ", "-") on the alphabet.
SpacesToDashes(s) ==
    CASE s = "s 1" -> "s-1"
      [] s = "S 1" -> "S-1"
      [] OTHER -> s

\* uuid.Parse succeeds.
IsUUID(s) == s \in UUIDs

\* emailRegex.MatchString
EmailMatches(s) == s \in {"a@x.io", "A@x.io", "b@x.io"}

\* slugRegex.MatchString: lower-case kebab-case only.
IsValidSlug(s) == s \in {"s-1", "s-2"}

\* a nil pointer (SQL NULL) for an empty input field
NullIfEmpty(s) == IF s = "" THEN NULL ELSE s

Min(a, b) == IF a < b THEN a ELSE b

\* ------------------------------------------------------------ input rows
\* models.UserImport / ArticleImport / CommentImport as the parsers fill them.
UserImports ==
    {[ID |-> "",   Email |-> "a@x.io", Role |-> "admin"],
     [ID |-> "",   Email |-> "A@x.io", Role |-> "admin"],    \* same email, other case
     [ID |-> "",   Email |-> "b@x.io", Role |-> "manager"],  \* role not allowed
     [ID |-> "u1", Email |-> "b@x.io", Role |-> "admin"],
     [ID |-> "u9", Email |-> "a@x.io", Role |-> "admin"],
     [ID |-> "u9", Email |-> "b@x.io", Role |-> "admin"]}
ArticleImports ==
    {[ID |-> "",   Slug |-> "s-1", AuthorID |-> "u1", Status |-> "draft"],
     [ID |-> "",   Slug |-> "S 1", AuthorID |-> "u1", Status |-> "draft"],  \* not kebab-case
     [ID |-> "",   Slug |-> "s-2", AuthorID |-> "u9", Status |-> "draft"],  \* unknown author
     [ID |-> "a1", Slug |-> "s-2", AuthorID |-> "u1", Status |-> "draft"],
     [ID |-> "a9", Slug |-> "s-1", AuthorID |-> "u1", Status |-> "draft"],
     [ID |-> "a9", Slug |-> "s-2", AuthorID |-> "u1", Status |-> "draft"]}
CommentImports ==
    {[ID |-> "",   ArticleID |-> "a1", UserID |-> "u1"],
     [ID |-> "",   ArticleID |-> "",   UserID |-> "u1"],     \* article_id missing
     [ID |-> "",   ArticleID |-> "a9", UserID |-> "u1"],     \* unknown article
     [ID |-> "c1", ArticleID |-> "a1", UserID |-> "u1"],
     [ID |-> "c1", ArticleID |-> "a1", UserID |-> "u9"],     \* unknown user
     [ID |-> "c9", ArticleID |-> "a2", UserID |-> "u2"]}

RecordsOf(resource) ==
    CASE resource = ResourceTypeUsers -> UserImports
      [] resource = ResourceTypeArticles -> ArticleImports
      [] OTHER -> CommentImports

\* A line of the file: a well-formed record, or a malformed one (a line that is
\* not a JSON object; a CSV record the csv reader rejects).
BadLine == [kind |-> "bad"]
RowLine(rec) == [kind |-> "row", rec |-> rec]
LinesOf(resource) == {BadLine} \cup {RowLine(rec) : rec \in RecordsOf(resource)}

\* ------------------------------------------------------------ validators
Err(field, code) == [field |-> field, code |-> code]

ValidateUserImport(user) ==
    (IF user.ID # "" /\ ~IsUUID(user.ID)
        THEN <<Err("id", ErrCodeInvalidUUID)>> ELSE <<>>)
    \o (IF user.Email = "" THEN <<Err("email", ErrCodeMissingField)>>
        ELSE IF ~EmailMatches(user.Email) THEN <<Err("email", ErrCodeInvalidEmail)>>
        ELSE <<>>)
    \o (IF user.Role = "" THEN <<Err("role", ErrCodeMissingField)>>
        ELSE IF ToLower(user.Role) \notin AllowedUserRoles
             THEN <<Err("role", ErrCodeInvalidRole)>>
        ELSE <<>>)

ValidateArticleImport(article) ==
    (IF article.ID # "" /\ ~IsUUID(article.ID)
        THEN <<Err("id", ErrCodeInvalidUUID)>> ELSE <<>>)
    \o (IF article.Slug = "" THEN <<Err("slug", ErrCodeMissingField)>>
        ELSE IF ~IsValidSlug(article.Slug) THEN <<Err("slug", ErrCodeInvalidSlug)>>
        ELSE <<>>)
    \o (IF article.AuthorID = "" THEN <<Err("author_id", ErrCodeMissingField)>>
        ELSE IF ~IsUUID(article.AuthorID)
             THEN <<Err("author_id", ErrCodeInvalidAuthor)>>
        ELSE <<>>)
    \o (IF article.Status = "" THEN <<Err("status", ErrCodeMissingField)>>
        ELSE IF ToLower(article.Status) \notin AllowedArticleStatuses
             THEN <<Err("status", ErrCodeInvalidStatus)>>
        ELSE <<>>)

ValidateCommentImport(comment) ==
    (IF comment.ID # "" /\ ~IsUUID(comment.ID)
        THEN <<Err("id", ErrCodeInvalidUUID)>> ELSE <<>>)
    \o (IF comment.ArticleID = "" THEN <<Err("article_id", ErrCodeMissingField)>>
        ELSE IF ~IsUUID(comment.ArticleID)
             THEN <<Err("article_id", ErrCodeInvalidArticle)>>
        ELSE <<>>)
    \o (IF comment.UserID = "" THEN <<Err("user_id", ErrCodeMissingField)>>
        ELSE IF ~IsUUID(comment.UserID)
             THEN <<Err("user_id", ErrCodeInvalidUser)>>
        ELSE <<>>)

Validate(resource, rec) ==
    CASE resource = ResourceTypeUsers -> ValidateUserImport(rec)
      [] resource = ResourceTypeArticles -> ValidateArticleImport(rec)
      [] OTHER -> ValidateCommentImport(rec)

\* ------------------------------------------- staging rows built in pass 1
\* The columns of a staging row that come from the record (normalised).
StagingUserFields(user) ==
    [id |-> NullIfEmpty(user.ID),
     email |-> IF user.Email # "" THEN ToLower(user.Email) ELSE NULL,
     role |-> IF user.Role # "" THEN ToLower(user.Role) ELSE NULL]

StagingArticleFields(article) ==
    [id |-> NullIfEmpty(article.ID),
     slug |-> IF article.Slug # "" THEN SpacesToDashes(ToLower(article.Slug)) ELSE NULL,
     author_id |-> NullIfEmpty(article.AuthorID),
     status |-> IF article.Status # "" THEN ToLower(article.Status) ELSE NULL]

StagingCommentFields(comment) ==
    [id |-> NullIfEmpty(comment.ID),
     article_id |-> NullIfEmpty(comment.ArticleID),
     user_id |-> NullIfEmpty(comment.UserID)]

\* The zero value of the record columns (parse error: nothing is filled in).
EmptyFields(resource) ==
    CASE resource = ResourceTypeUsers -> [id |-> NULL, email |-> NULL, role |-> NULL]
      [] resource = ResourceTypeArticles ->
            [id |-> NULL, slug |-> NULL, author_id |-> NULL, status |-> NULL]
      [] OTHER -> [id |-> NULL, article_id |-> NULL, user_id |-> NULL]

StagingFields(resource, rec) ==
    CASE resource = ResourceTypeUsers -> StagingUserFields(rec)
      [] resource = ResourceTypeArticles -> StagingArticleFields(rec)
      [] OTHER -> StagingCommentFields(rec)

\* The staging struct appended to stagingBatch for one callback.
\* validation_error keeps the code that leads the stored text "CODE: message".
NewStagingRow(jobID, row, resource, line) ==
    IF line.kind = "bad"
    THEN [job_id |-> jobID, row_number |-> row, f |-> EmptyFields(resource),
          is_valid |-> FALSE, validation_error |-> ErrCodeFileParseError]
    ELSE LET errs == Validate(resource, line.rec) IN
         [job_id |-> jobID, row_number |-> row, f |-> StagingFields(resource, line.rec),
          is_valid |-> (Len(errs) = 0),
          validation_error |-> IF Len(errs) > 0 THEN errs[1].code ELSE NULL]

\* ------------------------------------------------- staging repository
\* InsertedStagingRows with the serial handed out against the order of the
\* VALUES list.
InsertedStagingRowsReversed(batch, serial) ==
    {[staging_id |-> serial + Len(batch) + 1 - i, job_id |-> batch[i].job_id,
      row_number |-> batch[i].row_number, f |-> batch[i].f,
      is_valid |-> batch[i].is_valid, validation_error |-> batch[i].validation_error,
      is_duplicate |-> FALSE, processed |-> FALSE] : i \in 1..Len(batch)}

\* INSERT INTO staging_*: staging_id from the table's serial, the defaults of
\* is_duplicate and processed.
InsertedStagingRows(batch, serial) ==
    {[staging_id |-> serial + i, job_id |-> batch[i].job_id,
      row_number |-> batch[i].row_number, f |-> batch[i].f,
      is_valid |-> batch[i].is_valid, validation_error |-> batch[i].validation_error,
      is_duplicate |-> FALSE, processed |-> FALSE] : i \in 1..Len(batch)}

\* The UPDATE of a mark-* statement on the rows that satisfy hit.
MarkRows(tbl, hits, code, dup) ==
    [table |-> {IF s \in hits
                THEN [s EXCEPT !.is_duplicate = IF dup THEN TRUE ELSE @,
                               !.validation_error = code, !.is_valid = FALSE]
                ELSE s : s \in tbl},
     affected |-> Cardinality(hits)]

\* SQL equality of two nullable text values.
SqlEq(a, b) == a # NULL /\ b # NULL /\ a = b

EarlierSameEmail(tbl, s1) ==
    \E s2 \in tbl : /\ s2.job_id = s1.job_id
                    /\ s1.f.email # NULL /\ s2.f.email # NULL
                    /\ ToLower(s2.f.email) = ToLower(s1.f.email)
                    /\ s2.staging_id < s1.staging_id

\* MarkDuplicateUsersInBatch with the subquery's "s2.job_id = s1.job_id" left
\* out.
MarkDuplicateUsersInBatchAnyJob(tbl, jobID) ==
    MarkRows(tbl,
             {s1 \in tbl : /\ s1.job_id = jobID
                           /\ \E s2 \in tbl : /\ s1.f.email # NULL /\ s2.f.email # NULL
                                               /\ ToLower(s2.f.email) = ToLower(s1.f.email)
                                               /\ s2.staging_id < s1.staging_id},
             "DUPLICATE_EMAIL", TRUE)

MarkDuplicateUsersInBatch(tbl, jobID) ==
    MarkRows(tbl, {s1 \in tbl : s1.job_id = jobID /\ EarlierSameEmail(tbl, s1)},
             "DUPLICATE_EMAIL", TRUE)

MarkDuplicateUsersAgainstExisting(tbl, jobID, users) ==
    MarkRows(tbl,
             {s \in tbl : /\ s.job_id = jobID
                          /\ s.is_valid
                          /\ \E u \in users : s.f.email # NULL
                                              /\ ToLower(u.email) = ToLower(s.f.email)
                          /\ (s.f.id = NULL \/ ~\E u2 \in users : u2.id = s.f.id)},
             "DUPLICATE_EMAIL", TRUE)

EarlierSameSlug(tbl, s1) ==
    \E s2 \in tbl : /\ s2.job_id = s1.job_id
                    /\ s1.f.slug # NULL /\ s2.f.slug # NULL
                    /\ ToLower(s2.f.slug) = ToLower(s1.f.slug)
                    /\ s2.staging_id < s1.staging_id

MarkDuplicateArticlesInBatch(tbl, jobID) ==
    MarkRows(tbl, {s1 \in tbl : s1.job_id = jobID /\ EarlierSameSlug(tbl, s1)},
             "DUPLICATE_SLUG", TRUE)

MarkDuplicateArticlesAgainstExisting(tbl, jobID, articles) ==
    MarkRows(tbl,
             {s \in tbl : /\ s.job_id = jobID
                          /\ s.is_valid
                          /\ \E a \in articles : s.f.slug # NULL
                                                 /\ ToLower(a.slug) = ToLower(s.f.slug)
                          /\ (s.f.id = NULL \/ ~\E a2 \in articles : a2.id = s.f.id)},
             "DUPLICATE_SLUG", TRUE)

MarkInvalidAuthorFKArticles(tbl, jobID, users) ==
    MarkRows(tbl,
             {s \in tbl : /\ s.job_id = jobID
                          /\ s.is_valid
                          /\ s.f.author_id # NULL
                          /\ ~\E u \in users : u.id = s.f.author_id},
             "INVALID_AUTHOR_FK", FALSE)

EarlierSameID(tbl, s1) ==
    \E s2 \in tbl : /\ s2.job_id = s1.job_id
                    /\ SqlEq(s2.f.id, s1.f.id)
                    /\ s2.staging_id < s1.staging_id

MarkDuplicateCommentsInBatch(tbl, jobID) ==
    MarkRows(tbl, {s1 \in tbl : /\ s1.job_id = jobID
                                /\ s1.f.id # NULL
                                /\ EarlierSameID(tbl, s1)},
             "DUPLICATE_ID", TRUE)

ArticleMissing(s, articles) ==
    s.f.article_id # NULL /\ ~\E a \in articles : a.id = s.f.article_id

UserMissing(s, users) ==
    s.f.user_id # NULL /\ ~\E u \in users : u.id = s.f.user_id

\* One UPDATE whose CASE picks the code per row.
MarkInvalidFKComments(tbl, jobID, articles, users) ==
    LET hits == {s \in tbl : /\ s.job_id = jobID
                             /\ s.is_valid
                             /\ (ArticleMissing(s, articles) \/ UserMissing(s, users))}
    IN [table |-> {IF s \in hits
                   THEN [s EXCEPT !.is_valid = FALSE,
                                  !.validation_error =
                                      IF ArticleMissing(s, articles) THEN "INVALID_ARTICLE_FK"
                                      ELSE IF UserMissing(s, users) THEN "INVALID_USER_FK"
                                      ELSE "INVALID_FK"]
                   ELSE s : s \in tbl},
        affected |-> Cardinality(hits)]

RECURSIVE OrderByStagingID(_)
OrderByStagingID(S) ==
    IF S = {} THEN <<>>
    ELSE LET m == CHOOSE x \in S : \A y \in S : x.staging_id <= y.staging_id
         IN <<m>> \o OrderByStagingID(S \ {m})

\* The survivor query without its is_valid condition.
GetStagingIgnoringValidity(tbl, jobID) ==
    OrderByStagingID({s \in tbl : s.job_id = jobID /\ ~s.is_duplicate /\ ~s.processed})

\* SELECT ... WHERE job_id AND is_valid AND NOT is_duplicate AND NOT processed
\* ORDER BY staging_id.
GetValidStaging(tbl, jobID) ==
    OrderByStagingID({s \in tbl : /\ s.job_id = jobID
                                  /\ s.is_valid /\ ~s.is_duplicate /\ ~s.processed})

\* DELETE FROM staging_* WHERE job_id = $1
CleanupStaging(tbl, jobID) == {s \in tbl : s.job_id # jobID}

\* ----------------------------------------- staging row -> domain entity
Deref(x) == IF x = NULL THEN "" ELSE x

\* convertStagingToUser / Article / Comment return an error (uuid.Parse).
ConvertFails(resource, s) ==
    \/ s.f.id # NULL /\ s.f.id # "" /\ ~IsUUID(s.f.id)
    \/ resource = ResourceTypeArticles /\ s.f.author_id # NULL /\ ~IsUUID(s.f.author_id)
    \/ resource = ResourceTypeComments /\ s.f.article_id # NULL /\ ~IsUUID(s.f.article_id)
    \/ resource = ResourceTypeComments /\ s.f.user_id # NULL /\ ~IsUUID(s.f.user_id)

\* The entity of a staging row, its id taken from the row or freshly generated.
Entity(resource, s, id) ==
    CASE resource = ResourceTypeUsers ->
            [id |-> id, email |-> Deref(s.f.email), role |-> Deref(s.f.role)]
      [] resource = ResourceTypeArticles ->
            [id |-> id, slug |-> Deref(s.f.slug), author_id |-> Deref(s.f.author_id),
             status |-> Deref(s.f.status)]
      [] OTHER ->
            [id |-> id, article_id |-> Deref(s.f.article_id),
             user_id |-> Deref(s.f.user_id)]

NeedsNewID(s) == s.f.id = NULL \/ s.f.id = ""

RECURSIVE ConvertRows(_, _, _)
ConvertRows(resource, rows, gen) ==
    IF rows = <<>> THEN <<>>
    ELSE LET s == Head(rows)
         IN <<Entity(resource, s, IF NeedsNewID(s) THEN GenIDs[gen + 1] ELSE s.f.id)>>
            \o ConvertRows(resource, Tail(rows), IF NeedsNewID(s) THEN gen + 1 ELSE gen)

NumNewIDs(rows) == Cardinality({i \in 1..Len(rows) : NeedsNewID(rows[i])})

\* The rows of a delivered batch that the promotion loop hands to CreateBatch.
RowsToPromote(resource, batch) ==
    SelectSeq(batch, LAMBDA su : su.is_valid /\ ~su.is_duplicate /\ ~ConvertFails(resource, su))

\* ------------------------------------------------- target repositories
\* Constraints of the target relations (001_initial_schema.sql).
UniqueViolation(resource, tbl, r) ==
    CASE resource = ResourceTypeUsers -> \E t \in tbl : t.id # r.id /\ t.email = r.email
      [] resource = ResourceTypeArticles -> \E t \in tbl : t.id # r.id /\ t.slug = r.slug
      [] OTHER -> FALSE

CheckViolation(resource, r) ==
    CASE resource = ResourceTypeUsers -> r.role \notin {"admin", "author", "reader"}
      [] resource = ResourceTypeArticles -> r.status \notin {"draft", "published"}
      [] OTHER -> FALSE

ForeignKeyViolation(resource, r, db) ==
    CASE resource = ResourceTypeUsers -> FALSE
      [] resource = ResourceTypeArticles -> ~\E u \in db.users : u.id = r.author_id
      [] OTHER -> \/ ~\E a \in db.articles : a.id = r.article_id
                  \/ ~\E u \in db.users : u.id = r.user_id

\* INSERT ... VALUES rows ON CONFLICT (id) DO UPDATE SET <non-key columns>,
\* the rows taken in order inside one transaction.  touched: the ids this
\* command already inserted or updated (a second hit is an error).
RECURSIVE ExecUpsert(_, _, _, _, _)
ExecUpsert(resource, tbl, rows, touched, db) ==
    IF rows = <<>> THEN [err |-> FALSE, table |-> tbl]
    ELSE LET r == Head(rows) IN
         IF \/ r.id \in touched
            \/ UniqueViolation(resource, tbl, r)
            \/ CheckViolation(resource, r)
            \/ ForeignKeyViolation(resource, r, db)
         THEN [err |-> TRUE, table |-> tbl]
         ELSE ExecUpsert(resource, {t \in tbl : t.id # r.id} \cup {r}, Tail(rows),
                         touched \cup {r.id}, db)

\* UserRepository / ArticleRepository / CommentRepository CreateBatch: the new
\* table and the affected-row count, or the statement's error (table unchanged).
CreateBatch(resource, db, entities) ==
    LET res == ExecUpsert(resource, db[resource], entities, {}, db) IN
    IF res.err THEN [err |-> TRUE, table |-> db[resource], count |-> 0]
    ELSE [err |-> FALSE, table |-> res.table, count |-> Len(entities)]

\* ------------------------------------------------------ format detection
\* filepath.Ext of the upload names the model uses.
Ext(filename) ==
    CASE filename = "data.csv" -> ".csv"
      [] filename = "data.ndjson" -> ".ndjson"
      [] filename = "data.jsonl" -> ".jsonl"
      [] filename = "data.json" -> ".json"
      [] filename = "DATA.JSON" -> ".JSON"
      [] filename = "data.txt" -> ".txt"
      [] OTHER -> ""

ToLowerExt(e) == IF e = ".JSON" THEN ".json" ELSE e

\* DetectFormat without strings.ToLower.
DetectFormatCaseSensitive(filename) ==
    LET ext == Ext(filename) IN
    CASE ext = ".csv" -> FormatCSV
      [] ext \in {".ndjson", ".jsonl"} -> FormatNDJSON
      [] ext = ".json" -> FormatJSON
      [] OTHER -> FormatCSV

DetectFormat(filename) ==
    LET ext == ToLowerExt(Ext(filename)) IN
    CASE ext = ".csv" -> FormatCSV
      [] ext \in {".ndjson", ".jsonl"} -> FormatNDJSON
      [] ext = ".json" -> FormatJSON
      [] OTHER -> FormatCSV

IsCSV(f) == f = FormatCSV
IsNDJSON(f) == f = FormatNDJSON \/ f = FormatJSON

\* ----------------------------------------------------------------- state
VARIABLES
    jobs,          \* the jobs table: job id -> row
    mem,           \* the *models.Job the handler built and the worker holds
    files,         \* job id -> the uploaded file on disk
    batchSize,     \* config.ImportConfig.BatchSize
    staging,       \* resource -> rows of staging_users / _articles / _comments
    stagingSerial, \* resource -> last value of the table's staging_id serial
    target,        \* resource -> rows of users / articles / comments
    jobErrors,     \* the job_errors table
    pc,            \* job id -> where its worker is
    loc,           \* job id -> the locals of the pipeline run
    uuidGen,       \* number of identifiers uuid.New() has produced
    faults,        \* database errors returned so far
    promoted,      \* history: the staging rows handed to a successful CreateBatch
    requests,      \* request id -> an HTTP request and how far its handler is
    idempotencyKeys, \* the idempotency_keys table
    importChan,    \* Pool.importChan: the buffered channel of import jobs
    exportChan,    \* Pool.exportChan: the buffered channel of export jobs
    now,           \* the clock, in hours
    ctxDone,       \* the context given to Pool.Start is cancelled
    pool,          \* Pool.running, Pool.quit and the callers of Start and Stop
    workers        \* worker id -> what the worker goroutine is doing

\* What lies around the pipeline: the HTTP side, the channels, the workers.
envVars == <<requests, idempotencyKeys, importChan, exportChan, now, ctxDone, pool,
            workers>>

vars == <<jobs, mem, files, batchSize, staging, stagingSerial, target, jobErrors,
          pc, loc, uuidGen, faults, promoted, envVars>>

\* The jobs the handler created (one row of the jobs table each).
JobIDs == {"j1"}

\* Rows already in the target relations when the job starts.
SeededTarget ==
    [users |-> {[id |-> "u1", email |-> "a@x.io", role |-> "reader"],
                [id |-> "u2", email |-> "b@x.io", role |-> "reader"]},
     articles |-> {[id |-> "a1", slug |-> "s-1", author_id |-> "u1", status |-> "draft"],
                   [id |-> "a2", slug |-> "s-2", author_id |-> "u1", status |-> "draft"]},
     comments |-> {[id |-> "c1", article_id |-> "a1", user_id |-> "u1"]}]

\* Nothing of the job's own resource yet (nor of the relations that refer to
\* it); the relations it refers to are filled.
FreshTarget(resource) ==
    CASE resource = ResourceTypeUsers -> [users |-> {}, articles |-> {}, comments |-> {}]
      [] resource = ResourceTypeArticles ->
            [users |-> SeededTarget.users, articles |-> {}, comments |-> {}]
      [] OTHER -> [SeededTarget EXCEPT !.comments = {}]

RECURSIVE SeqsUpTo(_, _)
SeqsUpTo(S, n) ==
    IF n = 0 THEN {<<>>}
    ELSE LET shorter == SeqsUpTo(S, n - 1)
         IN shorter \cup {Append(q, x) : q \in {t \in shorter : Len(t) = n - 1}, x \in S}

\* The row jobRepo.Create inserts for the job the handler built.
NewJob(type, resource, filePath) ==
    [type |-> type, resource |-> resource, status |-> JobStatusPending,
     file_path |-> filePath,
     total_records |-> 0, processed_records |-> 0,
     successful_records |-> 0, failed_records |-> 0,
     error_message |-> NULL, started_at |-> NULL, completed_at |-> NULL,
     idempotency_key |-> NULL]

\* The pipeline's locals before it runs.
InitLocals ==
    [lineNumber |-> 0, stagingBatch |-> <<>>, validationErrors |-> <<>>,
     totalRows |-> 0, validRows |-> 0, invalidRows |-> 0,
     successfulInserts |-> 0, cursor |-> <<>>, errMsg |-> NULL,
     dupInBatch |-> 0,    \* the count MarkDuplicateUsersInBatch returned
     recorded |-> 0,      \* validation errors already passed to AddErrors
     rejected |-> {},     \* history: <<row number, code>> of the rows mark-* updated
     markErr |-> FALSE,
     setFailedErr |-> FALSE]  \* history: SetFailed returned an error   \* history: a mark-* statement returned an error

NoFile == [exists |-> FALSE, header |-> FALSE, lines |-> <<>>]

\* The worker goroutines Pool.Start may launch; how many of them run is the
\* configuration (IMPORT_WORKER_COUNT, EXPORT_WORKER_COUNT), the domain of
\* the variable workers.
ImportWorkerIDs == {"iw1", "iw2"}
ExportWorkerIDs == {"ew1", "ew2"}
WorkerIDs == ImportWorkerIDs \cup ExportWorkerIDs

\* The callers of Pool.Start and Pool.Stop (main, and whoever else holds the
\* pool).
CallerIDs == {"c1", "c2"}

\* The pool after NewPool: not running, quit open, nobody inside Start or Stop.
PoolNew ==
    [running |-> FALSE, quit |-> "open", panicked |-> FALSE, starts |-> 0, stops |-> 0,
     callers |-> [c \in CallerIDs |-> [at |-> "idle", call |-> "none", n |-> 0, gen |-> 0]]]

\* The pool once main has called Start.
PoolStarted == [PoolNew EXCEPT !.running = TRUE, !.starts = 1]

\* No request in flight, empty channels, the clock at its origin.
InitEnv ==
    /\ requests = <<>>
    /\ idempotencyKeys = {}
    /\ importChan = <<>>
    /\ exportChan = <<>>
    /\ now = 0
    /\ ctxDone = FALSE
    /\ pool = PoolStarted

\* The state after the handler created one job and queued it.
InitShared ==
    /\ staging = [r \in ResourceTypes |-> {}]
    /\ stagingSerial = [r \in ResourceTypes |-> 0]
    /\ jobErrors = {}
    /\ pc = [j \in JobIDs |-> "queued"]
    /\ loc = [j \in JobIDs |-> InitLocals]
    /\ uuidGen = 0
    /\ promoted = {}
    /\ InitEnv

\* An import job, created by the handler and handed to worker iw1.
ImportQueued ==
    \E resource \in ResourceTypes, path \in {"data.csv", "data.ndjson"} :
        /\ jobs = [j \in JobIDs |-> NewJob(JobTypeImport, resource, path)]
        /\ mem = jobs
        /\ batchSize \in 1..MaxBatchSize
        /\ \/ files = [j \in JobIDs |-> NoFile]
           \/ /\ IsCSV(DetectFormat(path))
              /\ files = [j \in JobIDs |-> [exists |-> TRUE, header |-> FALSE, lines |-> <<>>]]
           \/ \E lines \in SeqsUpTo(LinesOf(resource), MaxRows) :
                 files = [j \in JobIDs |-> [exists |-> TRUE, header |-> TRUE, lines |-> lines]]
        /\ target \in {FreshTarget(resource), SeededTarget}
        /\ workers = [w \in {"iw1"} |-> "j1"]
        /\ InitShared

InitImport == ImportQueued /\ faults = 0

InitExport ==
    \E resource \in ResourceTypes :
        /\ jobs = [j \in JobIDs |-> NewJob(JobTypeExport, resource, NULL)]
        /\ mem = jobs
        /\ batchSize = 1
        /\ files = [j \in JobIDs |-> NoFile]
        /\ target = SeededTarget
        /\ workers = [w \in {"ew1"} |-> "j1"]
        /\ InitShared
        /\ faults = 0

Init == InitImport \/ InitExport

\* ------------------------------------------------------- job repository
SetStarted(tbl, id) ==
    [tbl EXCEPT ![id].status = JobStatusProcessing, ![id].started_at = "set"]

SetCompleted(tbl, id, successful, failed) ==
    [tbl EXCEPT ![id].status = JobStatusCompleted,
                ![id].successful_records = successful,
                ![id].failed_records = failed,
                ![id].completed_at = "set"]

\* SetFailed with the completed_at assignment left out.
SetFailedKeepingCompletedAt(tbl, id, errorMessage) ==
    [tbl EXCEPT ![id].status = JobStatusFailed,
                ![id].error_message = errorMessage]

SetFailed(tbl, id, errorMessage) ==
    [tbl EXCEPT ![id].status = JobStatusFailed,
                ![id].error_message = errorMessage,
                ![id].completed_at = "set"]

UpdateProgress(tbl, id, processed, successful, failed) ==
    [tbl EXCEPT ![id].processed_records = processed,
                ![id].successful_records = successful,
                ![id].failed_records = failed]

SetTotalRecords(tbl, id, total) == [tbl EXCEPT ![id].total_records = total]

\* JobRepository.Update: every listed column is overwritten from the struct.
Update(tbl, id, job) ==
    [tbl EXCEPT ![id].status = job.status,
                ![id].total_records = job.total_records,
                ![id].processed_records = job.processed_records,
                ![id].successful_records = job.successful_records,
                ![id].failed_records = job.failed_records,
                ![id].error_message = job.error_message,
                ![id].started_at = job.started_at,
                ![id].completed_at = job.completed_at,
                ![id].file_path = job.file_path]

\* GetByID when the query fails: the zero-valued struct (and the error, dropped).
ZeroJob ==
    [type |-> "", resource |-> "", status |-> "", file_path |-> NULL,
     total_records |-> 0, processed_records |-> 0,
     successful_records |-> 0, failed_records |-> 0,
     error_message |-> NULL, started_at |-> NULL, completed_at |-> NULL,
     idempotency_key |-> NULL]

\* database/sql runs a statement only under a context that is not cancelled;
\* under a cancelled one the call returns ctx.Err().
CtxLive == ~ctxDone

\* A repository call returns nil (ok) or an error: the context's when it is
\* cancelled, else a database error.
DbCall(ok) ==
    IF ctxDone THEN ~ok /\ faults' = faults
    ELSE IF ok THEN faults' = faults ELSE faults < MaxFaults /\ faults' = faults + 1

\* --------------------------------------------------------- import worker
Resource(j) == jobs[j].resource
Format(j) == DetectFormat(Deref(mem[j].file_path))
\* lines of the file the parser has consumed
Consumed(j) == IF IsCSV(Format(j)) THEN loc[j].lineNumber - 1 ELSE loc[j].lineNumber

\* Pool.failJob: mark the struct failed and write it with Update.
FailJob(j, errorMsg, ok) ==
    LET job == [mem[j] EXCEPT !.status = JobStatusFailed,
                              !.error_message = errorMsg, !.completed_at = "set"]
    IN /\ mem' = [mem EXCEPT ![j] = job]
       /\ jobs' = IF ok THEN Update(jobs, j, job) ELSE jobs

\* A worker received job j from its channel.
HeldByWorker(j) == \E w \in DOMAIN workers : workers[w] = j

\* Pool.processImportJob up to the call of ProcessImport: open the file.
ProcessImportJob(j) ==
    /\ pc[j] = "queued"
    /\ HeldByWorker(j)
    /\ jobs[j].type = JobTypeImport
    /\ IF files[j].exists
       THEN /\ pc' = [pc EXCEPT ![j] = "SetStarted"]
            /\ UNCHANGED <<jobs, mem, faults>>
       ELSE /\ \E ok \in BOOLEAN : DbCall(ok) /\ FailJob(j, "failed to open file", ok)
            /\ pc' = [pc EXCEPT ![j] = "done"]
    /\ UNCHANGED <<files, batchSize, staging, stagingSerial, target, jobErrors, loc,
                   uuidGen, promoted>>
    /\ UNCHANGED envVars

\* Service.ProcessImport: SetStarted, or return its error.
ImportSetStarted(j) ==
    /\ pc[j] = "SetStarted"
    /\ jobs[j].type = JobTypeImport
    /\ \E ok \in BOOLEAN :
          /\ DbCall(ok)
          /\ IF ok
             THEN jobs' = SetStarted(jobs, j) /\ pc' = [pc EXCEPT ![j] = "OpenParser"]
             ELSE jobs' = jobs /\ pc' = [pc EXCEPT ![j] = "done"]
    /\ UNCHANGED <<mem, files, batchSize, staging, stagingSerial, target, jobErrors, loc,
                   uuidGen, promoted>>
    /\ UNCHANGED envVars

\* process*Import: detect the format and create the parser (CSV reads the header).
OpenParser(j) ==
    /\ pc[j] = "OpenParser"
    /\ IF IsCSV(Format(j))
       THEN IF files[j].header
            THEN /\ loc' = [loc EXCEPT ![j].lineNumber = 1]
                 /\ pc' = [pc EXCEPT ![j] = "Pass1"]
            ELSE /\ loc' = [loc EXCEPT ![j].errMsg = "failed to create CSV parser"]
                 /\ pc' = [pc EXCEPT ![j] = "HandleFailure"]
       ELSE /\ loc' = [loc EXCEPT ![j].lineNumber = 0]
            /\ pc' = [pc EXCEPT ![j] = "Pass1"]
    /\ UNCHANGED <<jobs, mem, files, batchSize, staging, stagingSerial, target, jobErrors,
                   uuidGen, faults, promoted>>
    /\ UNCHANGED envVars

\* The locals after process* counted and staged one delivered record.
Staged(l, jobID, row, resource, line) ==
    LET errs == IF line.kind = "bad" THEN <<>> ELSE Validate(resource, line.rec)
        bad == line.kind = "bad" \/ Len(errs) > 0
    IN [l EXCEPT !.totalRows = @ + 1,
                 !.invalidRows = IF bad THEN @ + 1 ELSE @,
                 !.validRows = IF bad THEN @ ELSE @ + 1,
                 !.validationErrors =
                     @ \o [i \in 1..Len(errs) |->
                             [row |-> row, field |-> errs[i].field, code |-> errs[i].code]],
                 !.stagingBatch = Append(@, NewStagingRow(jobID, row, resource, line))]

\* Pass1Line with a CSV parser that hands a record it cannot parse to the
\* callback, as the line-JSON parser does.
Pass1LineDeliveringMalformed(j) ==
    /\ pc[j] = "Pass1"
    /\ Consumed(j) < Len(files[j].lines)
    /\ LET line == files[j].lines[Consumed(j) + 1]
           row == loc[j].lineNumber + 1
           read == [loc[j] EXCEPT !.lineNumber = row]
           l == Staged(read, j, row, Resource(j), line)
       IN IF line.kind = "empty" /\ IsNDJSON(Format(j))
          THEN /\ loc' = [loc EXCEPT ![j] = read]
               /\ UNCHANGED <<jobs, staging, stagingSerial, pc, faults>>
          ELSE IF line.kind = "bad" \/ Len(l.stagingBatch) < batchSize
          THEN /\ loc' = [loc EXCEPT ![j] = l]
               /\ UNCHANGED <<jobs, staging, stagingSerial, pc, faults>>
          ELSE \/ /\ DbCall(FALSE)          \* CreateStaging* fails
                  /\ loc' = [loc EXCEPT ![j] = [l EXCEPT !.errMsg = "failed to create staging"]]
                  /\ pc' = [pc EXCEPT ![j] = "HandleFailure"]
                  /\ UNCHANGED <<jobs, staging, stagingSerial>>
               \/ /\ CtxLive
                  /\ staging' = [staging EXCEPT ![Resource(j)] =
                         @ \cup InsertedStagingRows(l.stagingBatch, stagingSerial[Resource(j)])]
                  /\ stagingSerial' = [stagingSerial EXCEPT ![Resource(j)] =
                                          @ + Len(l.stagingBatch)]
                  /\ loc' = [loc EXCEPT ![j] = [l EXCEPT !.stagingBatch = <<>>]]
                  /\ \E ok \in BOOLEAN :     \* UpdateProgress, error dropped
                        /\ DbCall(ok)
                        /\ jobs' = IF ok THEN UpdateProgress(jobs, j, l.totalRows,
                                                             l.validRows, l.invalidRows)
                                   ELSE jobs
                  /\ UNCHANGED pc
    /\ UNCHANGED <<mem, files, batchSize, target, jobErrors, uuidGen, promoted>>
    /\ UNCHANGED envVars

\* Pass 1, one line of the file: the parser reads it and, unless it is a CSV
\* record that does not parse or an empty line of a line-JSON file, calls
\* process*, which counts, validates and buffers the row and flushes the
\* buffer once it holds BatchSize rows.
Pass1Line(j) ==
    /\ pc[j] = "Pass1"
    /\ Consumed(j) < Len(files[j].lines)
    /\ LET line == files[j].lines[Consumed(j) + 1]
           row == loc[j].lineNumber + 1
           read == [loc[j] EXCEPT !.lineNumber = row]
           l == Staged(read, j, row, Resource(j), line)
       IN IF \/ line.kind = "bad" /\ IsCSV(Format(j))
             \/ line.kind = "empty" /\ IsNDJSON(Format(j))
          THEN /\ loc' = [loc EXCEPT ![j] = read]
               /\ UNCHANGED <<jobs, staging, stagingSerial, pc, faults>>
          ELSE IF line.kind = "bad" \/ Len(l.stagingBatch) < batchSize
          THEN /\ loc' = [loc EXCEPT ![j] = l]
               /\ UNCHANGED <<jobs, staging, stagingSerial, pc, faults>>
          ELSE \/ /\ DbCall(FALSE)          \* CreateStaging* fails
                  /\ loc' = [loc EXCEPT ![j] = [l EXCEPT !.errMsg = "failed to create staging"]]
                  /\ pc' = [pc EXCEPT ![j] = "HandleFailure"]
                  /\ UNCHANGED <<jobs, staging, stagingSerial>>
               \/ /\ CtxLive
                  /\ staging' = [staging EXCEPT ![Resource(j)] =
                         @ \cup InsertedStagingRows(l.stagingBatch, stagingSerial[Resource(j)])]
                  /\ stagingSerial' = [stagingSerial EXCEPT ![Resource(j)] =
                                          @ + Len(l.stagingBatch)]
                  /\ loc' = [loc EXCEPT ![j] = [l EXCEPT !.stagingBatch = <<>>]]
                  /\ \E ok \in BOOLEAN :     \* UpdateProgress, error dropped
                        /\ DbCall(ok)
                        /\ jobs' = IF ok THEN UpdateProgress(jobs, j, l.totalRows,
                                                             l.validRows, l.invalidRows)
                                   ELSE jobs
                  /\ UNCHANGED pc
    /\ UNCHANGED <<mem, files, batchSize, target, jobErrors, uuidGen, promoted>>
    /\ UNCHANGED envVars

\* FlushRemainder with an INSERT that also writes the buffered rows to the
\* target relation.
FlushRemainderIntoTarget(j) ==
    /\ pc[j] = "Pass1"
    /\ Consumed(j) = Len(files[j].lines)
    /\ LET l == loc[j] IN
       \/ /\ Len(l.stagingBatch) > 0
          /\ DbCall(FALSE)
          /\ loc' = [loc EXCEPT ![j].errMsg = "failed to create staging"]
          /\ pc' = [pc EXCEPT ![j] = "HandleFailure"]
          /\ UNCHANGED <<jobs, staging, stagingSerial, target>>
       \/ /\ Len(l.stagingBatch) > 0 => CtxLive
          /\ staging' = [staging EXCEPT ![Resource(j)] =
                 @ \cup InsertedStagingRows(l.stagingBatch, stagingSerial[Resource(j)])]
          /\ stagingSerial' = [stagingSerial EXCEPT ![Resource(j)] = @ + Len(l.stagingBatch)]
          /\ target' = [target EXCEPT ![Resource(j)] =
                 @ \cup {Entity(Resource(j), l.stagingBatch[i], Deref(l.stagingBatch[i].f.id))
                            : i \in 1..Len(l.stagingBatch)}]
          /\ \E ok \in BOOLEAN :
                /\ DbCall(ok)
                /\ jobs' = IF ok THEN SetTotalRecords(jobs, j, l.totalRows) ELSE jobs
          /\ pc' = [pc EXCEPT ![j] = "MarkInBatch"]
          /\ UNCHANGED loc
    /\ UNCHANGED <<mem, files, batchSize, jobErrors, uuidGen, promoted>>
    /\ UNCHANGED envVars

\* The parser reached the end of the file: insert the remaining buffer, then
\* SetTotalRecords (error dropped).
FlushRemainder(j) ==
    /\ pc[j] = "Pass1"
    /\ Consumed(j) = Len(files[j].lines)
    /\ LET l == loc[j] IN
       \/ /\ Len(l.stagingBatch) > 0
          /\ DbCall(FALSE)
          /\ loc' = [loc EXCEPT ![j].errMsg = "failed to create staging"]
          /\ pc' = [pc EXCEPT ![j] = "HandleFailure"]
          /\ UNCHANGED <<jobs, staging, stagingSerial>>
       \/ /\ Len(l.stagingBatch) > 0 => CtxLive
          /\ staging' = [staging EXCEPT ![Resource(j)] =
                 @ \cup InsertedStagingRows(l.stagingBatch, stagingSerial[Resource(j)])]
          /\ stagingSerial' = [stagingSerial EXCEPT ![Resource(j)] = @ + Len(l.stagingBatch)]
          /\ \E ok \in BOOLEAN :
                /\ DbCall(ok)
                /\ jobs' = IF ok THEN SetTotalRecords(jobs, j, l.totalRows) ELSE jobs
          /\ pc' = [pc EXCEPT ![j] = "MarkInBatch"]
          /\ UNCHANGED loc
    /\ UNCHANGED <<mem, files, batchSize, target, jobErrors, uuidGen, promoted>>
    /\ UNCHANGED envVars

\* ------------------------------------------------------------- pass 2
MarkDuplicatesInBatchOf(resource, tbl, jobID) ==
    CASE resource = ResourceTypeUsers -> MarkDuplicateUsersInBatch(tbl, jobID)
      [] resource = ResourceTypeArticles -> MarkDuplicateArticlesInBatch(tbl, jobID)
      [] OTHER -> MarkDuplicateCommentsInBatch(tbl, jobID)

MarkDuplicatesAgainstExistingOf(resource, tbl, jobID, db) ==
    IF resource = ResourceTypeUsers
    THEN MarkDuplicateUsersAgainstExisting(tbl, jobID, db.users)
    ELSE MarkDuplicateArticlesAgainstExisting(tbl, jobID, db.articles)

MarkInvalidFKOf(resource, tbl, jobID, db) ==
    IF resource = ResourceTypeArticles
    THEN MarkInvalidAuthorFKArticles(tbl, jobID, db.users)
    ELSE MarkInvalidFKComments(tbl, jobID, db.articles, db.users)

\* What a mark-* call does to the run: users return the error, articles and
\* comments drop it (dupInBatch, _ := ...) and go on with a count of 0.  Only
\* the users import moves its counters, once, after its second statement, by
\* dupInBatch + dupAgainstExisting; articles and comments only log the counts.
MarkStep(j, res, next) ==
    \/ /\ CtxLive
       /\ staging' = [staging EXCEPT ![Resource(j)] = res.table]
       /\ LET moved == IF Resource(j) = ResourceTypeUsers /\ pc[j] = "MarkExisting"
                       THEN loc[j].dupInBatch + res.affected ELSE 0
          IN loc' = [loc EXCEPT ![j].invalidRows = @ + moved,
                                ![j].validRows = @ - moved,
                                ![j].dupInBatch =
                                    IF Resource(j) = ResourceTypeUsers /\ pc[j] = "MarkInBatch"
                                    THEN res.affected ELSE @,
                                ![j].rejected = @ \cup
                                    {<<s.row_number, s.validation_error>> :
                                        s \in res.table \ staging[Resource(j)]}]
       /\ pc' = [pc EXCEPT ![j] = next]
       /\ UNCHANGED faults
    \/ /\ DbCall(FALSE)
       /\ UNCHANGED staging
       /\ IF Resource(j) = ResourceTypeUsers
          THEN /\ loc' = [loc EXCEPT ![j].errMsg = "failed to mark duplicates",
                                     ![j].markErr = TRUE]
               /\ pc' = [pc EXCEPT ![j] = "HandleFailure"]
          ELSE /\ loc' = [loc EXCEPT ![j].markErr = TRUE]
               /\ pc' = [pc EXCEPT ![j] = next]

\* MarkDuplicatesInBatch followed at once by the survivor query: the other
\* pass-2 statements are left out.
MarkDuplicatesInBatchOnly(j) ==
    /\ pc[j] = "MarkInBatch"
    /\ MarkStep(j, MarkDuplicatesInBatchOf(Resource(j), staging[Resource(j)], j), "GetValid")
    /\ UNCHANGED <<jobs, mem, files, batchSize, stagingSerial, target, jobErrors,
                   uuidGen, promoted>>
    /\ UNCHANGED envVars

MarkDuplicatesInBatch(j) ==
    /\ pc[j] = "MarkInBatch"
    /\ MarkStep(j, MarkDuplicatesInBatchOf(Resource(j), staging[Resource(j)], j),
                IF Resource(j) = ResourceTypeComments THEN "MarkFK" ELSE "MarkExisting")
    /\ UNCHANGED <<jobs, mem, files, batchSize, stagingSerial, target, jobErrors,
                   uuidGen, promoted>>
    /\ UNCHANGED envVars

MarkDuplicatesAgainstExisting(j) ==
    /\ pc[j] = "MarkExisting"
    /\ MarkStep(j, MarkDuplicatesAgainstExistingOf(Resource(j), staging[Resource(j)], j, target),
                IF Resource(j) = ResourceTypeUsers THEN "GetValid" ELSE "MarkFK")
    /\ UNCHANGED <<jobs, mem, files, batchSize, stagingSerial, target, jobErrors,
                   uuidGen, promoted>>
    /\ UNCHANGED envVars

MarkInvalidFK(j) ==
    /\ pc[j] = "MarkFK"
    /\ MarkStep(j, MarkInvalidFKOf(Resource(j), staging[Resource(j)], j, target), "GetValid")
    /\ UNCHANGED <<jobs, mem, files, batchSize, stagingSerial, target, jobErrors,
                   uuidGen, promoted>>
    /\ UNCHANGED envVars

\* GetValidStaging*: run the query; its rows are then delivered in batches.
GetValid(j) ==
    /\ pc[j] = "GetValid"
    /\ \E ok \in BOOLEAN :
          /\ DbCall(ok)
          /\ IF ok
             THEN /\ loc' = [loc EXCEPT ![j].cursor =
                                GetValidStaging(staging[Resource(j)], j)]
                  /\ pc' = [pc EXCEPT ![j] = "Promote"]
             ELSE /\ loc' = [loc EXCEPT ![j].errMsg = "query failed"]
                  /\ pc' = [pc EXCEPT ![j] = "HandleFailure"]
    /\ UNCHANGED <<jobs, mem, files, batchSize, staging, stagingSerial, target, jobErrors,
                   uuidGen, promoted>>
    /\ UNCHANGED envVars

\* The callback on the next batch of at most BatchSize rows: filter, convert,
\* CreateBatch; an error of CreateBatch ends the run.
PromoteBatch(j) ==
    /\ pc[j] = "Promote"
    /\ loc[j].cursor # <<>>
    /\ LET n == Min(batchSize, Len(loc[j].cursor))
           batch == SubSeq(loc[j].cursor, 1, n)
           rest == SubSeq(loc[j].cursor, n + 1, Len(loc[j].cursor))
           rows == RowsToPromote(Resource(j), batch)
           entities == ConvertRows(Resource(j), rows, uuidGen)
           res == CreateBatch(Resource(j), target, entities)
       IN /\ uuidGen' = uuidGen + NumNewIDs(rows)
          /\ IF rows = <<>>
             THEN /\ loc' = [loc EXCEPT ![j].cursor = rest]
                  /\ UNCHANGED <<target, promoted, pc, faults>>
             ELSE \/ /\ ~res.err
                     /\ CtxLive
                     /\ target' = [target EXCEPT ![Resource(j)] = res.table]
                     /\ loc' = [loc EXCEPT ![j].cursor = rest,
                                           ![j].successfulInserts = @ + res.count]
                     /\ promoted' = promoted \cup
                            {[job |-> j, s |-> rows[i], e |-> entities[i]] : i \in 1..Len(rows)}
                     /\ UNCHANGED <<pc, faults>>
                  \/ /\ IF res.err THEN UNCHANGED faults ELSE DbCall(FALSE)
                     /\ loc' = [loc EXCEPT ![j].errMsg = "failed to insert batch"]
                     /\ pc' = [pc EXCEPT ![j] = "HandleFailure"]
                     /\ UNCHANGED <<target, promoted>>
    /\ UNCHANGED <<jobs, mem, files, batchSize, staging, stagingSerial, jobErrors>>
    /\ UNCHANGED envVars

\* recordValidationErrors: one AddErrors call per page of BatchSize errors
\* (error dropped); with none left, CleanupStaging* (error dropped).
RecordValidationErrors(j) ==
    /\ pc[j] = "Promote"
    /\ loc[j].cursor = <<>>
    /\ loc[j].recorded < Len(loc[j].validationErrors)
    /\ LET errs == loc[j].validationErrors
           end == Min(loc[j].recorded + batchSize, Len(errs))
       IN /\ \E ok \in BOOLEAN :
                /\ DbCall(ok)
                /\ jobErrors' = IF ok
                      THEN jobErrors \cup
                           {[job_id |-> j, row_number |-> errs[i].row,
                             field_name |-> errs[i].field, error_code |-> errs[i].code]
                              : i \in (loc[j].recorded + 1)..end}
                      ELSE jobErrors
          /\ loc' = [loc EXCEPT ![j].recorded = end]
    /\ UNCHANGED <<jobs, mem, files, batchSize, staging, stagingSerial, target, pc,
                   uuidGen, promoted>>
    /\ UNCHANGED envVars

CleanupStagingRows(j) ==
    /\ pc[j] = "Promote"
    /\ loc[j].cursor = <<>>
    /\ loc[j].recorded = Len(loc[j].validationErrors)
    /\ \E ok \in BOOLEAN :
          /\ DbCall(ok)
          /\ staging' = IF ok THEN [staging EXCEPT ![Resource(j)] = CleanupStaging(@, j)]
                        ELSE staging
    /\ pc' = [pc EXCEPT ![j] = "FinalProgress"]
    /\ UNCHANGED <<jobs, mem, files, batchSize, stagingSerial, target, jobErrors, loc,
                   uuidGen, promoted>>
    /\ UNCHANGED envVars

\* The final UpdateProgress(totalRows, successfulInserts, totalRows - successfulInserts).
FinalProgress(j) ==
    /\ pc[j] = "FinalProgress"
    /\ \E ok \in BOOLEAN :
          /\ DbCall(ok)
          /\ jobs' = IF ok
                     THEN UpdateProgress(jobs, j, loc[j].totalRows, loc[j].successfulInserts,
                                         loc[j].totalRows - loc[j].successfulInserts)
                     ELSE jobs
    /\ pc' = [pc EXCEPT ![j] = "Complete"]
    /\ UNCHANGED <<mem, files, batchSize, staging, stagingSerial, target, jobErrors, loc,
                   uuidGen, promoted>>
    /\ UNCHANGED envVars

\* ProcessImport after process* returned nil: GetByID (error dropped, the
\* struct is then zero-valued), SetCompleted with its counters (error logged).
Complete(j) ==
    /\ pc[j] = "Complete"
    /\ \E okGet \in BOOLEAN, okSet \in BOOLEAN :
          LET n == IF ctxDone THEN 0
                   ELSE (IF okGet THEN 0 ELSE 1) + (IF okSet THEN 0 ELSE 1)
              finalJob == IF okGet THEN jobs[j] ELSE ZeroJob
          IN /\ ctxDone => (~okGet /\ ~okSet)
             /\ faults + n <= MaxFaults
             /\ faults' = faults + n
             /\ jobs' = IF okSet
                        THEN SetCompleted(jobs, j, finalJob.successful_records,
                                          finalJob.failed_records)
                        ELSE jobs
             /\ mem' = [mem EXCEPT ![j].status = JobStatusCompleted,
                                   ![j].successful_records = finalJob.successful_records,
                                   ![j].failed_records = finalJob.failed_records]
    /\ pc' = [pc EXCEPT ![j] = "done"]
    /\ UNCHANGED <<files, batchSize, staging, stagingSerial, target, jobErrors, loc,
                   uuidGen, promoted>>
    /\ UNCHANGED envVars

\* handleJobFailure of the import and of the export service: SetFailed, its
\* error dropped.
HandleJobFailure(j) ==
    /\ pc[j] = "HandleFailure"
    /\ \E ok \in BOOLEAN :
          /\ DbCall(ok)
          /\ jobs' = IF ok THEN SetFailed(jobs, j, loc[j].errMsg) ELSE jobs
          /\ loc' = [loc EXCEPT ![j].setFailedErr = ~ok]
    /\ pc' = [pc EXCEPT ![j] = "done"]
    /\ UNCHANGED <<mem, files, batchSize, staging, stagingSerial, target, jobErrors,
                   uuidGen, promoted>>
    /\ UNCHANGED envVars

\* --------------------------------------------------------- export worker
\* Service.ProcessAsyncExport: SetStarted, or return its error.
ExportSetStarted(j) ==
    /\ pc[j] = "queued"
    /\ HeldByWorker(j)
    /\ jobs[j].type = JobTypeExport
    /\ \E ok \in BOOLEAN :
          /\ DbCall(ok)
          /\ IF ok
             THEN jobs' = SetStarted(jobs, j) /\ pc' = [pc EXCEPT ![j] = "Stream"]
             ELSE jobs' = jobs /\ pc' = [pc EXCEPT ![j] = "done"]
    /\ UNCHANGED <<mem, files, batchSize, staging, stagingSerial, target, jobErrors, loc,
                   uuidGen, promoted>>
    /\ UNCHANGED envVars

\* os.Create and Stream*: either fails (handleJobFailure), or the file is
\* written and the struct gets its path and the estimated record count.
ExportStream(j) ==
    /\ pc[j] = "Stream"
    /\ \/ /\ loc' = [loc EXCEPT ![j].errMsg = "Failed to create output file"]
          /\ pc' = [pc EXCEPT ![j] = "HandleFailure"]
          /\ UNCHANGED <<mem, faults>>
       \/ /\ DbCall(FALSE)
          /\ loc' = [loc EXCEPT ![j].errMsg = "query failed"]
          /\ pc' = [pc EXCEPT ![j] = "HandleFailure"]
          /\ UNCHANGED mem
       \/ \E recordCount \in 0..MaxExportRecords :
             /\ CtxLive
             /\ mem' = [mem EXCEPT ![j].file_path = "out.ndjson",
                                   ![j].total_records = recordCount,
                                   ![j].processed_records = recordCount,
                                   ![j].successful_records = recordCount]
             /\ pc' = [pc EXCEPT ![j] = "ExportUpdate"]
             /\ UNCHANGED <<loc, faults>>
    /\ UNCHANGED <<jobs, files, batchSize, staging, stagingSerial, target, jobErrors,
                   uuidGen, promoted>>
    /\ UNCHANGED envVars

\* jobRepo.Update(job) with the struct the handler built (error logged).
ExportUpdate(j) ==
    /\ pc[j] = "ExportUpdate"
    /\ \E ok \in BOOLEAN :
          /\ DbCall(ok)
          /\ jobs' = IF ok THEN Update(jobs, j, mem[j]) ELSE jobs
    /\ pc' = [pc EXCEPT ![j] = "ExportSetCompleted"]
    /\ UNCHANGED <<mem, files, batchSize, staging, stagingSerial, target, jobErrors, loc,
                   uuidGen, promoted>>
    /\ UNCHANGED envVars

\* jobRepo.SetCompleted(recordCount, 0) (error logged).
ExportSetCompleted(j) ==
    /\ pc[j] = "ExportSetCompleted"
    /\ \E ok \in BOOLEAN :
          /\ DbCall(ok)
          /\ jobs' = IF ok THEN SetCompleted(jobs, j, mem[j].total_records, 0) ELSE jobs
    /\ pc' = [pc EXCEPT ![j] = "done"]
    /\ UNCHANGED <<mem, files, batchSize, staging, stagingSerial, target, jobErrors, loc,
                   uuidGen, promoted>>
    /\ UNCHANGED envVars

\* ------------------------------------------------------------ the system
Next ==
    \E j \in JobIDs :
        \/ ProcessImportJob(j)
        \/ ImportSetStarted(j)
        \/ OpenParser(j)
        \/ Pass1Line(j)
        \/ FlushRemainder(j)
        \/ MarkDuplicatesInBatch(j)
        \/ MarkDuplicatesAgainstExisting(j)
        \/ MarkInvalidFK(j)
        \/ GetValid(j)
        \/ PromoteBatch(j)
        \/ RecordValidationErrors(j)
        \/ CleanupStagingRows(j)
        \/ FinalProgress(j)
        \/ Complete(j)
        \/ HandleJobFailure(j)
        \/ ExportSetStarted(j)
        \/ ExportStream(j)
        \/ ExportUpdate(j)
        \/ ExportSetCompleted(j)

Spec == Init /\ [][Next]_vars

\* ================================================================ claims
\* C1: the persisted status of a job that has been processing is never
\* written back to pending (it stays, or ends completed or failed), and a job
\* that is completed or failed never changes status again.
C1_StatusMonotone ==
    [][\A j \in JobIDs :
          /\ (jobs[j].status = JobStatusProcessing
                => jobs'[j].status \in {JobStatusProcessing, JobStatusCompleted,
                                        JobStatusFailed})
          /\ (jobs[j].status \in {JobStatusCompleted, JobStatusFailed}
                => jobs'[j].status = jobs[j].status)]_vars

\* C2: every row a step adds to or changes in users, articles or comments is
\* the entity of a staging row of that job which was read by the survivor
\* query with is_valid = true and is_duplicate = false; the rows the query
\* delivers, and the rows handed to a batch upsert, are never invalid or
\* duplicate rows.
C2_PromotedAreValid ==
    [][
       /\ \A r \in ResourceTypes : \A t \in target'[r] \ target[r] :
             \E p \in promoted' :
                 /\ p.e = t
                 /\ p.s \in staging[r]
                 /\ jobs[p.job].resource = r
       /\ \A p \in promoted' :
             p.s.job_id = p.job /\ p.s.is_valid /\ ~p.s.is_duplicate
       /\ \A j \in JobIDs : \A i \in 1..Len(loc'[j].cursor) :
             LET s == loc'[j].cursor[i]
             IN s.job_id = j /\ s.is_valid /\ ~s.is_duplicate
      ]_vars

\* C2's case: a row was promoted into the target while the job's staging
\* table also held a row that is invalid or a duplicate.
C2_Witness ==
    \E p \in promoted : \E s \in staging[jobs[p.job].resource] :
        /\ p.e \in target[jobs[p.job].resource]
        /\ s.job_id = p.job
        /\ (~s.is_valid \/ s.is_duplicate)

\* ------------------------------------------ what the claims speak about
IsImport(j) == jobs[j].type = JobTypeImport
Finished(j) == pc[j] = "done"
\* The file could be opened and its header (CSV) read.
Readable(j) == files[j].exists /\ files[j].header

\* The records the parser hands to the pipeline, with their row numbers
\* (NDJSON counts lines from 1; CSV counts the header as line 1 and skips a
\* record it cannot read).
DeliveredRows(j) ==
    {[row |-> IF IsCSV(Format(j)) THEN i + 1 ELSE i, line |-> files[j].lines[i]] :
        i \in {k \in 1..Len(files[j].lines) :
                  ~(IsCSV(Format(j)) /\ files[j].lines[k].kind = "bad")}}

\* The row number of line i of the file.
RowOfLine(j, i) == IF IsCSV(Format(j)) THEN i + 1 ELSE i

PassedValidation(j, d) ==
    d.line.kind = "row" /\ Validate(Resource(j), d.line.rec) = <<>>

HasJobError(j, row) == \E e \in jobErrors : e.job_id = j /\ e.row_number = row

\* Two rows carry the same dedup key: email (users), lower-cased slug
\* (articles), non-null id (comments).
SameDedupKey(resource, f1, f2) ==
    CASE resource = ResourceTypeUsers -> SqlEq(f1.email, f2.email)
      [] resource = ResourceTypeArticles ->
            f1.slug # NULL /\ f2.slug # NULL /\ ToLower(f1.slug) = ToLower(f2.slug)
      [] OTHER -> SqlEq(f1.id, f2.id)

\* The target relation holds the row with these staged columns.
Present(resource, f, tbl) ==
    \E t \in tbl :
        /\ f.id # NULL => t.id = f.id
        /\ CASE resource = ResourceTypeUsers -> t.email = f.email /\ t.role = f.role
             [] resource = ResourceTypeArticles ->
                   t.slug = f.slug /\ t.author_id = f.author_id /\ t.status = f.status
             [] OTHER -> t.article_id = f.article_id /\ t.user_id = f.user_id

\* C3: among the rows of one file that share a dedup key, no row other than
\* the one with the smallest row number is ever handed to a batch upsert.
C3_FirstOccurrenceOnly ==
    \A p \in promoted :
        ~\E d \in DeliveredRows(p.job) :
            /\ d.line.kind = "row"
            /\ d.row < p.s.row_number
            /\ SameDedupKey(Resource(p.job),
                            StagingFields(Resource(p.job), d.line.rec), p.s.f)

\* C4: once an import is completed, every input row that passed validation
\* and has no JobError for its row number is present in the target relation
\* (stated for runs in which no repository call returned an error).
C4_ValidRowsPresent ==
    \A j \in JobIDs :
        (IsImport(j) /\ Finished(j) /\ jobs[j].status = JobStatusCompleted /\ faults = 0)
        => \A d \in DeliveredRows(j) :
              (PassedValidation(j, d) /\ ~HasJobError(j, d.row))
              => Present(Resource(j), StagingFields(Resource(j), d.line.rec),
                         target[Resource(j)])

\* C5: once an import is completed, every row a mark-duplicate or mark-FK
\* statement rejected has a JobError entry with its row number and its
\* relational code (stated for runs in which no repository call returned an
\* error).
C5_Pass2RejectionsJournaled ==
    \A j \in JobIDs :
        (IsImport(j) /\ Finished(j) /\ jobs[j].status = JobStatusCompleted /\ faults = 0)
        => \A r \in loc[j].rejected :
              /\ r[2] \in RelationalCodes
              /\ \E e \in jobErrors :
                    e.job_id = j /\ e.row_number = r[1] /\ e.error_code = r[2]

\* The lines of the file that are malformed.
BadLines(j) == {i \in 1..Len(files[j].lines) : files[j].lines[i].kind = "bad"}

\* Exactly one line of the file is malformed and every other line is a
\* record that passes validation.
OneMalformedLine(j) ==
    /\ Cardinality(BadLines(j)) = 1
    /\ Len(files[j].lines) > 1
    /\ \A i \in 1..Len(files[j].lines) :
          i \notin BadLines(j) => Validate(Resource(j), files[j].lines[i].rec) = <<>>

\* C6: when an import of a readable file with exactly one malformed line
\* among valid lines has ended completed, the journal holds exactly one
\* FILE_PARSE_ERROR JobError, the one for that line, and every valid line
\* after it is in the target (stated for runs in which no repository call
\* returned an error).
C6_OneParseErrorJournaled ==
    \A j \in JobIDs :
        (/\ IsImport(j) /\ Finished(j) /\ Readable(j) /\ OneMalformedLine(j)
         /\ jobs[j].status = JobStatusCompleted /\ faults = 0)
        => /\ \A b \in BadLines(j) :
                 {e.row_number : e \in {x \in jobErrors :
                       x.job_id = j /\ x.error_code = ErrCodeFileParseError}}
                    = {RowOfLine(j, b)}
           /\ \A b \in BadLines(j) : \A i \in (b + 1)..Len(files[j].lines) :
                 Present(Resource(j),
                         StagingFields(Resource(j), files[j].lines[i].rec),
                         target[Resource(j)])

\* C7: an import whose file can be opened and whose header can be read never
\* ends failed, whatever its rows hold: it ends completed (stated for runs in
\* which no repository call fails for a reason other than the rows' content).
C7_RowsNeverFailJob ==
    \A j \in JobIDs :
        (IsImport(j) /\ Finished(j) /\ Readable(j) /\ faults = 0)
        => jobs[j].status = JobStatusCompleted

\* A bulk statement of the pipeline returned an error: a staging insert, a
\* mark-* statement, the survivor query or a batch upsert.
BulkStatementFailed(j) ==
    \/ loc[j].markErr
    \/ loc[j].errMsg \in {"failed to create staging", "failed to mark duplicates",
                          "query failed", "failed to insert batch"}

\* C8: an import in which a bulk statement returned a database error ends
\* failed with an error_message, for users, articles and comments alike
\* (stated for runs in which the SetFailed call that records it succeeds).
C8_BulkErrorFailsJob ==
    \A j \in JobIDs :
        (IsImport(j) /\ Finished(j) /\ BulkStatementFailed(j) /\ ~loc[j].setFailedErr)
        => /\ jobs[j].status = JobStatusFailed
           /\ jobs[j].error_message # NULL

\* C9: a job whose persisted status is completed or failed has
\* processed_records = successful_records + failed_records.
C9_ProcessedIsSum ==
    \A j \in JobIDs :
        jobs[j].status \in {JobStatusCompleted, JobStatusFailed}
        => jobs[j].processed_records
              = jobs[j].successful_records + jobs[j].failed_records

\* C10: a completed import has successful_records = the sum of the counts its
\* batch upserts returned, failed_records = total_records - successful_records,
\* processed_records = total_records, and total_records = the number of rows
\* the parser delivered.
C10_CompletedCounters ==
    \A j \in JobIDs :
        (IsImport(j) /\ jobs[j].status = JobStatusCompleted)
        => /\ jobs[j].successful_records = loc[j].successfulInserts
           /\ jobs[j].failed_records
                 = jobs[j].total_records - jobs[j].successful_records
           /\ jobs[j].processed_records = jobs[j].total_records
           /\ jobs[j].total_records = Cardinality(DeliveredRows(j))

\* C11: in every persisted state of a job, also while pass 1 runs and after a
\* failure in pass 1, total_records is at least processed_records.
C11_TotalAtLeastProcessed ==
    \A j \in JobIDs : jobs[j].total_records >= jobs[j].processed_records

\* C17: in every persisted job state started_at is non-null exactly when the
\* status is not pending (jobs failed before the pipeline starts and export
\* jobs after their file-path/counter update included).
C17_StartedAtIffNotPending ==
    \A j \in JobIDs : (jobs[j].started_at # NULL) <=> (jobs[j].status # JobStatusPending)

\* C18: in every persisted job state completed_at is non-null exactly when the
\* status is completed, failed or cancelled.
C18_CompletedAtIffTerminal ==
    \A j \in JobIDs :
        (jobs[j].completed_at # NULL)
            <=> (jobs[j].status \in {JobStatusCompleted, JobStatusFailed, JobStatusCancelled})

\* A job a terminal write reached: its row is completed or failed and carries
\* completed_at, while a job in an earlier state carries none.
C18_Witness ==
    \E j \in JobIDs :
        /\ jobs[j].status = JobStatusFailed
        /\ jobs[j].started_at # NULL
        /\ jobs[j].completed_at # NULL
        /\ pc[j] = "done"

\* ===================================================================
\* The HTTP side: POST /v1/imports, POST /v1/exports, the idempotency
\* store and the worker pool's channels.
\* ===================================================================
MaxRequests == 2
QueueSize == 1
MaxTicks == 1
IdempotencyTTLHours == 24

RequestIDs == 1..MaxRequests
\* Idempotency-Key headers: none, a UUID, a string that is no UUID.
ApiKeys == {"", "u1", "key-1"}
\* uuid.New() of the handlers: the n-th job gets the n-th identifier.
JobIDSeq == <<"j1", "j2", "j3", "j4">>
NilUUID == "00000000"

\* Everything of the pipeline except the jobs table, the job structs and pc.
pipelineVars == <<files, batchSize, staging, stagingSerial, target, jobErrors, loc,
                  uuidGen, faults, promoted>>

\* idempotency_keys as the schema creates it: its columns, and those that are
\* NOT NULL without a DEFAULT.
IdempotencyKeysColumns ==
    {"id", "idempotency_key", "job_id", "status_code", "response_body",
     "created_at", "expires_at"}
IdempotencyKeysRequired == {"idempotency_key", "job_id", "status_code"}

\* PostgreSQL rejects a statement that names a column the relation lacks, and
\* an INSERT that leaves a required column without a value.
StatementFails(named) == ~(named \subseteq IdempotencyKeysColumns)
InsertFails(named) ==
    StatementFails(named) \/ ~(IdempotencyKeysRequired \subseteq named)

\* IdempotencyRepository.Create:
\* INSERT INTO idempotency_keys (key, job_id, created_at, expires_at).
IdempotencyCreate(tbl, key, jobID, expiresAt) ==
    IF InsertFails({"key", "job_id", "created_at", "expires_at"})
       \/ (\E k \in tbl : k.idempotency_key = key)
    THEN [err |-> TRUE, table |-> tbl]
    ELSE [err |-> FALSE,
          table |-> tbl \cup {[idempotency_key |-> key, job_id |-> jobID,
                               expires_at |-> expiresAt]}]

\* IdempotencyRepository.GetByKey, SELECT * FROM idempotency_keys WHERE
\* key = $1 AND expires_at > NOW(): (nil, nil) when no row matches; otherwise
\* "return &record, err", which on a failed query is a non-nil zero record
\* together with the error.
IdempotencyGetByKey(tbl, key, t) ==
    IF StatementFails({"key", "expires_at"})
    THEN [found |-> TRUE, job_id |-> NilUUID, status_code |-> 0, err |-> TRUE]
    ELSE LET hits == {k \in tbl : k.idempotency_key = key /\ k.expires_at > t}
         IN IF hits = {}
            THEN [found |-> FALSE, job_id |-> NilUUID, status_code |-> 0, err |-> FALSE]
            ELSE [found |-> TRUE, job_id |-> (CHOOSE k \in hits : TRUE).job_id,
                  status_code |-> 0, err |-> FALSE]

\* JobRepository.Create: the INSERT, under UNIQUE (idempotency_key).
JobCreate(tbl, id, job) ==
    IF job.idempotency_key # NULL
       /\ \E i \in DOMAIN tbl : tbl[i].idempotency_key = job.idempotency_key
    THEN [err |-> TRUE, table |-> tbl]
    ELSE [err |-> FALSE, table |-> tbl @@ (id :> job)]

\* A submit that appends whatever the channel holds.
SubmitBeyondCapacity(ch, id) == [err |-> FALSE, ch |-> Append(ch, id)]

\* Pool.SubmitImportJob / SubmitExportJob: select { case ch <- job: default: }.
Submit(ch, id) ==
    IF Len(ch) < QueueSize
    THEN [err |-> FALSE, ch |-> Append(ch, id)]
    ELSE [err |-> TRUE, ch |-> ch]

\* The requests a client may send.  POST /v1/exports reads no Idempotency-Key
\* and its route has no middleware.
NewRequests ==
    {[kind |-> JobTypeImport, key |-> k, resource |-> res, pc |-> "middleware",
      code |-> 0, job_id |-> NULL, created |-> NULL, submitErr |-> FALSE]
        : k \in ApiKeys, res \in {ResourceTypeUsers, "widgets"}}
    \cup
    {[kind |-> JobTypeExport, key |-> "", resource |-> res, pc |-> "create",
      code |-> 0, job_id |-> NULL, created |-> NULL, submitErr |-> FALSE]
        : res \in {ResourceTypeUsers, "widgets"}}

\* c.JSON(code, ...) followed by return / c.Abort().
Respond(q, code, jobID) == [q EXCEPT !.pc = "done", !.code = code, !.job_id = jobID]

InitApi ==
    /\ jobs = <<>>
    /\ mem = <<>>
    /\ pc = <<>>
    /\ loc = <<>>
    /\ files = <<>>
    /\ batchSize = 1
    /\ staging = [r \in ResourceTypes |-> {}]
    /\ stagingSerial = [r \in ResourceTypes |-> 0]
    /\ target = SeededTarget
    /\ jobErrors = {}
    /\ uuidGen = 0
    /\ faults = 0
    /\ promoted = {}
    /\ requests \in [RequestIDs -> NewRequests]
    /\ idempotencyKeys = {}
    /\ importChan = <<>>
    /\ exportChan = <<>>
    /\ now = 0
    /\ ctxDone = FALSE
    /\ pool = PoolStarted
    /\ workers = [w \in {"iw1", "ew1"} |-> "idle"]

\* middleware.Idempotency, installed on the /v1/imports group.
ApiMiddleware(r) ==
    /\ requests[r].pc = "middleware"
    /\ LET q == requests[r]
           existing == IdempotencyGetByKey(idempotencyKeys, q.key, now)
       IN requests' = [requests EXCEPT ![r] =
              IF q.key = "" THEN [q EXCEPT !.pc = "lookup"]
              ELSE IF ~IsUUID(q.key) THEN Respond(q, 400, NULL)
              ELSE IF existing.err THEN Respond(q, 500, NULL)
              ELSE IF existing.found
                   THEN Respond(q, existing.status_code, existing.job_id)
                   ELSE [q EXCEPT !.pc = "lookup"]]
    /\ UNCHANGED <<jobs, mem, pc, pipelineVars, idempotencyKeys, importChan,
                   exportChan, now, ctxDone, workers, pool>>

\* ImportHandler.CreateImport, the idempotency check at its head.
ApiLookup(r) ==
    /\ requests[r].pc = "lookup"
    /\ LET q == requests[r]
           existingKey == IdempotencyGetByKey(idempotencyKeys, q.key, now)
       IN requests' = [requests EXCEPT ![r] =
              IF q.key # "" /\ existingKey.found /\ existingKey.job_id \in DOMAIN jobs
              THEN Respond(q, 200, existingKey.job_id)
              ELSE [q EXCEPT !.pc = "create"]]
    /\ UNCHANGED <<jobs, mem, pc, pipelineVars, idempotencyKeys, importChan,
                   exportChan, now, ctxDone, workers, pool>>

\* CreateImport / CreateAsyncExport from the request's validation up to and
\* including jobRepo.Create.
ApiCreateJob(r) ==
    /\ requests[r].pc = "create"
    /\ LET q == requests[r]
           id == JobIDSeq[Cardinality(DOMAIN jobs) + 1]
           job == [NewJob(q.kind, q.resource,
                          IF q.kind = JobTypeImport THEN "data.csv" ELSE NULL)
                     EXCEPT !.idempotency_key = NullIfEmpty(q.key)]
           res == JobCreate(jobs, id, job)
       IN IF q.resource \notin ResourceTypes
          THEN /\ requests' = [requests EXCEPT ![r] = Respond(q, 400, NULL)]
               /\ UNCHANGED jobs
          ELSE /\ jobs' = res.table
               /\ requests' = [requests EXCEPT ![r] =
                      IF res.err THEN Respond(q, 500, NULL)
                      ELSE [q EXCEPT !.created = id,
                                     !.pc = IF q.kind = JobTypeImport
                                            THEN "store" ELSE "submit"]]
    /\ UNCHANGED <<mem, pc, pipelineVars, idempotencyKeys, importChan, exportChan,
                   now, ctxDone, workers, pool>>

\* CreateImport: store the idempotency key; a failure is logged and ignored.
ApiStoreKey(r) ==
    /\ requests[r].pc = "store"
    /\ LET q == requests[r]
           res == IdempotencyCreate(idempotencyKeys, q.key, q.created,
                                    now + IdempotencyTTLHours)
       IN /\ idempotencyKeys' = IF q.key = "" THEN idempotencyKeys ELSE res.table
          /\ requests' = [requests EXCEPT ![r].pc = "submit"]
    /\ UNCHANGED <<jobs, mem, pc, pipelineVars, importChan, exportChan, now,
                   ctxDone, workers, pool>>

\* The handler's tail: submit to the pool (the result is not looked at) and
\* answer 202 with the new job.
ApiSubmit(r) ==
    /\ requests[r].pc = "submit"
    /\ LET q == requests[r]
           res == Submit(IF q.kind = JobTypeImport THEN importChan ELSE exportChan,
                         q.created)
       IN /\ IF q.kind = JobTypeImport
             THEN importChan' = res.ch /\ UNCHANGED exportChan
             ELSE exportChan' = res.ch /\ UNCHANGED importChan
          /\ requests' = [requests EXCEPT ![r] =
                 [Respond(q, 202, q.created) EXCEPT !.submitErr = res.err]]
    /\ UNCHANGED <<jobs, mem, pc, pipelineVars, idempotencyKeys, now, ctxDone, workers,
                   pool>>

\* WorkerReceive with a receive that leaves the request in the channel.
WorkerReceiveLeavingRequest(w) ==
    /\ w \in DOMAIN workers
    /\ workers[w] = "idle"
    /\ IF w \in ImportWorkerIDs
       THEN /\ importChan # <<>>
            /\ workers' = [workers EXCEPT ![w] = Head(importChan)]
       ELSE /\ exportChan # <<>>
            /\ workers' = [workers EXCEPT ![w] = Head(exportChan)]
    /\ UNCHANGED <<importChan, exportChan>>
    /\ UNCHANGED <<jobs, mem, pc, pipelineVars, requests, idempotencyKeys, now, ctxDone,
                   pool>>

\* Pool.importWorker / exportWorker: an idle worker receives the next job of
\* its channel; what it then does with the job is the pipeline above.
WorkerReceive(w) ==
    /\ w \in DOMAIN workers
    /\ workers[w] = "idle"
    /\ IF w \in ImportWorkerIDs
       THEN /\ importChan # <<>>
            /\ workers' = [workers EXCEPT ![w] = Head(importChan)]
            /\ importChan' = Tail(importChan)
            /\ UNCHANGED exportChan
       ELSE /\ exportChan # <<>>
            /\ workers' = [workers EXCEPT ![w] = Head(exportChan)]
            /\ exportChan' = Tail(exportChan)
            /\ UNCHANGED importChan
    /\ UNCHANGED <<jobs, mem, pc, pipelineVars, requests, idempotencyKeys, now, ctxDone,
                   pool>>

\* Time passes: one TTL at a step.
Tick ==
    /\ now < MaxTicks * IdempotencyTTLHours
    /\ now' = now + IdempotencyTTLHours
    /\ UNCHANGED <<jobs, mem, pc, pipelineVars, requests, idempotencyKeys, importChan,
                   exportChan, ctxDone, workers, pool>>

NextApi ==
    \/ \E r \in RequestIDs :
          \/ ApiMiddleware(r)
          \/ ApiLookup(r)
          \/ ApiCreateJob(r)
          \/ ApiStoreKey(r)
          \/ ApiSubmit(r)
    \/ \E w \in WorkerIDs : WorkerReceive(w)
    \/ Tick

SpecApi == InitApi /\ [][NextApi]_vars

\* The jobs that carry idempotency key k.
JobsWithKey(k) == {i \in DOMAIN jobs : jobs[i].idempotency_key = k}
\* The requests that have been answered.
Answered(r) == requests[r].pc = "done"

\* C12: two POST /v1/imports with the same Idempotency-Key K, the second
\* handled after the first finished and before K expires, return the same
\* job_id, and exactly one job exists for K.
C12_SameKeySameJob ==
    \A r1, r2 \in RequestIDs :
        (/\ r1 # r2
         /\ requests[r1].kind = JobTypeImport /\ requests[r2].kind = JobTypeImport
         /\ requests[r1].resource \in ResourceTypes
         /\ requests[r2].resource \in ResourceTypes
         /\ IsUUID(requests[r1].key) /\ requests[r1].key = requests[r2].key
         /\ Answered(r1) /\ Answered(r2)
         /\ now = 0)
        => (/\ requests[r1].job_id # NULL
            /\ requests[r1].job_id = requests[r2].job_id
            /\ Cardinality(JobsWithKey(requests[r1].key)) = 1)

\* C13: at most one job carries a given idempotency key, the idempotency entry
\* of the key (if present) points to that job, and the key-to-job mapping
\* never changes once made.
C13_KeyMapsToOneJob ==
    [][
        /\ \A k \in ApiKeys \ {""} :
              /\ Cardinality(JobsWithKey(k)) <= 1
              /\ \A e \in idempotencyKeys :
                    e.idempotency_key = k => JobsWithKey(k) = {e.job_id}
              /\ (JobsWithKey(k) # {}) => (JobsWithKey(k)' = JobsWithKey(k))
    ]_vars

\* The case C13 is about: a job that carries an idempotency key.
C13_NoJobEverCarriesAKey ==
    \A i \in DOMAIN jobs : jobs[i].idempotency_key = NULL

\* An unexpired idempotency entry for key k that points to another job than id.
UnexpiredEntryElsewhere(k, id) ==
    \E e \in idempotencyKeys :
        e.idempotency_key = k /\ e.expires_at > now /\ e.job_id # id

\* C14: a POST /v1/imports with Idempotency-Key K for which no unexpired entry
\* exists creates a new job, records (K, new job, expiry) and enqueues the job.
C14_UnseenKeyCreatesJob ==
    \A r \in RequestIDs :
        (/\ requests[r].kind = JobTypeImport
         /\ requests[r].resource \in ResourceTypes
         /\ IsUUID(requests[r].key)
         /\ Answered(r)
         /\ ~UnexpiredEntryElsewhere(requests[r].key, requests[r].created))
        => (/\ requests[r].created \in DOMAIN jobs
            /\ jobs[requests[r].created].idempotency_key = requests[r].key
            /\ \E e \in idempotencyKeys :
                  e.idempotency_key = requests[r].key /\ e.job_id = requests[r].created
            /\ ~requests[r].submitErr)

\* The channel a request's job is submitted to, and the other one.
ChanOf(q) == IF q.kind = JobTypeImport THEN importChan ELSE exportChan
OtherChanOf(q) == IF q.kind = JobTypeImport THEN exportChan ELSE importChan

\* C15: SubmitImportJob and SubmitExportJob never block; on a channel that
\* holds QueueSize requests the call returns an error and leaves the queue as
\* it is, otherwise it appends the request and returns nil; a submit to one
\* queue leaves the other queue alone.
C15_SubmitNeverBlocks ==
    /\ [](\A r \in RequestIDs : requests[r].pc = "submit" => ENABLED ApiSubmit(r))
    /\ [][
           \A r \in RequestIDs :
              (requests[r].pc = "submit" /\ requests'[r].pc = "done")
              => /\ IF Len(ChanOf(requests[r])) >= QueueSize
                    THEN /\ requests'[r].submitErr
                         /\ ChanOf(requests[r])' = ChanOf(requests[r])
                    ELSE /\ ~requests'[r].submitErr
                         /\ ChanOf(requests[r])'
                               = Append(ChanOf(requests[r]), requests[r].created)
                 /\ OtherChanOf(requests[r])' = OtherChanOf(requests[r])
       ]_vars

\* A submit met a full import queue and returned its error, after an earlier
\* submit had been appended.
C15_Witness ==
    \E r1, r2 \in RequestIDs :
        /\ requests[r1].kind = JobTypeImport /\ requests[r1].submitErr
        /\ Len(importChan) = QueueSize
        /\ requests[r2].kind = JobTypeImport /\ Answered(r2)
        /\ requests[r2].created # NULL /\ ~requests[r2].submitErr

\* ===================================================================
\* Shutdown: main cancels the context it gave to Pool.Start while an import
\* worker is processing a job.
\* ===================================================================
\* One import job in the hands of worker iw1; the only errors are those of
\* the cancelled context.
InitCancel ==
    /\ ImportQueued
    /\ faults = MaxFaults

\* main: cancel().
CancelContext ==
    /\ ~ctxDone
    /\ ctxDone' = TRUE
    /\ UNCHANGED <<jobs, mem, pc, pipelineVars, requests, idempotencyKeys, importChan,
                   exportChan, now, workers, pool>>

\* importWorker: processImportJob returned, back to the select.
WorkerReturn(w) ==
    /\ w \in DOMAIN workers
    /\ workers[w] \in DOMAIN pc
    /\ pc[workers[w]] = "done"
    /\ workers' = [workers EXCEPT ![w] = "idle"]
    /\ UNCHANGED <<jobs, mem, pc, pipelineVars, requests, idempotencyKeys, importChan,
                   exportChan, now, ctxDone, pool>>

\* importWorker / exportWorker: case <-ctx.Done(): return, or
\* case <-p.quit: return.
WorkerStop(w) ==
    /\ w \in DOMAIN workers
    /\ workers[w] = "idle"
    /\ ctxDone \/ pool.quit = "closed"
    /\ workers' = [workers EXCEPT ![w] = "stopped"]
    /\ UNCHANGED <<jobs, mem, pc, pipelineVars, requests, idempotencyKeys, importChan,
                   exportChan, now, ctxDone, pool>>

\* The steps of the import worker's goroutine on job j.
ImportStep(j) ==
    \/ ProcessImportJob(j)
    \/ ImportSetStarted(j)
    \/ OpenParser(j)
    \/ Pass1Line(j)
    \/ FlushRemainder(j)
    \/ MarkDuplicatesInBatch(j)
    \/ MarkDuplicatesAgainstExisting(j)
    \/ MarkInvalidFK(j)
    \/ GetValid(j)
    \/ PromoteBatch(j)
    \/ RecordValidationErrors(j)
    \/ CleanupStagingRows(j)
    \/ FinalProgress(j)
    \/ Complete(j)
    \/ HandleJobFailure(j)

NextCancel ==
    \/ \E j \in JobIDs :
          \/ ProcessImportJob(j)
          \/ ImportSetStarted(j)
          \/ OpenParser(j)
          \/ Pass1Line(j)
          \/ FlushRemainder(j)
          \/ MarkDuplicatesInBatch(j)
          \/ MarkDuplicatesAgainstExisting(j)
          \/ MarkInvalidFK(j)
          \/ GetValid(j)
          \/ PromoteBatch(j)
          \/ RecordValidationErrors(j)
          \/ CleanupStagingRows(j)
          \/ FinalProgress(j)
          \/ Complete(j)
          \/ HandleJobFailure(j)
    \/ \E w \in WorkerIDs : WorkerReturn(w) \/ WorkerStop(w)
    \/ CancelContext

\* The goroutines are scheduled fairly: a worker that can take a step takes
\* one.  Nothing obliges main to cancel.
WorkerProgress ==
    \/ \E j \in JobIDs : ImportStep(j)
    \/ \E w \in WorkerIDs : WorkerReturn(w) \/ WorkerStop(w)

SpecCancel == InitCancel /\ [][NextCancel]_vars /\ WF_vars(WorkerProgress)

\* C16: when the worker context is cancelled while an import job is
\* processing (and has not failed on its own), the job's persisted status
\* eventually becomes failed with error_message "cancelled" and the worker
\* exits.
C16_CancelledJobFails ==
    \A j \in JobIDs :
        (ctxDone /\ jobs[j].status = JobStatusProcessing /\ loc[j].errMsg = NULL)
            ~> (/\ jobs[j].status = JobStatusFailed
                /\ jobs[j].error_message = "cancelled"
                /\ \A w \in ImportWorkerIDs : workers[w] = "stopped")

\* ===================================================================
\* Two import jobs of one resource, queued one behind the other; one import
\* worker runs them in succession, two import workers run them concurrently.
\* ===================================================================
MaxRowsPerJob == 1
TwoJobIDs == {"j1", "j2"}

\* The uploaded files: MaxRowsPerJob records each (NDJSON).
TwoJobFiles(resource) ==
    {q \in SeqsUpTo({RowLine(rec) : rec \in RecordsOf(resource)}, MaxRowsPerJob) :
        Len(q) = MaxRowsPerJob}

InitTwoJobs ==
    \E resource \in ResourceTypes :
        /\ jobs = [j \in TwoJobIDs |-> NewJob(JobTypeImport, resource, "data.ndjson")]
        /\ mem = jobs
        /\ batchSize = 1
        /\ \E f1, f2 \in TwoJobFiles(resource) :
              files = [j \in TwoJobIDs |->
                         [exists |-> TRUE, header |-> TRUE,
                          lines |-> IF j = "j1" THEN f1 ELSE f2]]
        /\ target \in {FreshTarget(resource), SeededTarget}
        /\ staging = [r \in ResourceTypes |-> {}]
        /\ stagingSerial = [r \in ResourceTypes |-> 0]
        /\ jobErrors = {}
        /\ pc = [j \in TwoJobIDs |-> "queued"]
        /\ loc = [j \in TwoJobIDs |-> InitLocals]
        /\ uuidGen = 0
        /\ faults = MaxFaults
        /\ promoted = {}
        /\ requests = <<>>
        /\ idempotencyKeys = {}
        /\ importChan = <<"j1", "j2">>
        /\ exportChan = <<>>
        /\ now = 0
        /\ ctxDone = FALSE
        /\ pool = PoolStarted
        /\ \E n \in {{"iw1"}, {"iw1", "iw2"}} : workers = [w \in n |-> "idle"]

NextTwoJobs ==
    \/ \E j \in TwoJobIDs :
          \/ ProcessImportJob(j)
          \/ ImportSetStarted(j)
          \/ OpenParser(j)
          \/ Pass1Line(j)
          \/ FlushRemainder(j)
          \/ MarkDuplicatesInBatch(j)
          \/ MarkDuplicatesAgainstExisting(j)
          \/ MarkInvalidFK(j)
          \/ GetValid(j)
          \/ PromoteBatch(j)
          \/ RecordValidationErrors(j)
          \/ CleanupStagingRows(j)
          \/ FinalProgress(j)
          \/ Complete(j)
          \/ HandleJobFailure(j)
    \/ \E w \in ImportWorkerIDs : WorkerReceive(w) \/ WorkerReturn(w)

SpecTwoJobs == InitTwoJobs /\ [][NextTwoJobs]_vars

\* One import worker: the second job starts when the first has returned.
Successive == DOMAIN workers = {"iw1"}

\* Both jobs got the same file, every record of which passes validation.
SameValidFile ==
    /\ files["j1"] = files["j2"]
    /\ \A i \in 1..Len(files["j1"].lines) :
          Validate(Resource("j1"), files["j1"].lines[i].rec) = <<>>

\* The first of the two runs is over and reached completed.
FirstRunCompleted ==
    pc["j1"] = "done" /\ jobs["j1"].status = JobStatusCompleted

\* C19: running the same valid import file as two successive jobs leaves the
\* target relation with the same rows as running it once (with explicit ids
\* and with ids absent), and the second job reaches completed.
C19_SecondRunChangesNothing ==
    /\ []((Successive /\ SameValidFile /\ FirstRunCompleted /\ pc["j2"] = "done")
            => jobs["j2"].status = JobStatusCompleted)
    /\ [][
           (Successive /\ SameValidFile /\ FirstRunCompleted)
           => target'[Resource("j1")] = target[Resource("j1")]
       ]_vars

\* The staged columns of the i-th record of job j's file.
FieldsOfLine(j, i) == StagingFields(Resource(j), files[j].lines[i].rec)

\* The records a target row may refer to exist (author; article and user).
Referable(resource, f, db) ==
    CASE resource = ResourceTypeUsers -> TRUE
      [] resource = ResourceTypeArticles -> \E u \in db.users : u.id = f.author_id
      [] OTHER -> /\ \E a \in db.articles : a.id = f.article_id
                  /\ \E u \in db.users : u.id = f.user_id

\* The rows of the target relation that carry the natural key of f.
RowsWithKeyOf(resource, f, tbl) ==
    {t \in tbl : SameDedupKey(resource, t, f)}

\* The relation holds none of the rows the database was seeded with: all its
\* rows were written by the two jobs.
OnlyImportedRows(resource) ==
    \A t \in target[resource] : t.id \notin {x.id : x \in SeededTarget[resource]}

\* C20: when two import jobs of one resource each contain a valid row with
\* the same natural key, then under every interleaving both jobs reach
\* completed and the target ends with exactly one row for that key (checked
\* for a relation that was empty when the jobs started).
C20_ConcurrentSameKey ==
    \A i1 \in 1..Len(files["j1"].lines), i2 \in 1..Len(files["j2"].lines) :
        LET res == Resource("j1")
            f1 == FieldsOfLine("j1", i1)
            f2 == FieldsOfLine("j2", i2)
        IN (/\ pc["j1"] = "done" /\ pc["j2"] = "done"
            /\ Validate(res, files["j1"].lines[i1].rec) = <<>>
            /\ Validate(res, files["j2"].lines[i2].rec) = <<>>
            /\ SameDedupKey(res, f1, f2)
            /\ OnlyImportedRows(res)
            /\ Referable(res, f1, target) /\ Referable(res, f2, target))
           => (/\ jobs["j1"].status = JobStatusCompleted
               /\ jobs["j2"].status = JobStatusCompleted
               /\ Cardinality(RowsWithKeyOf(res, f1, target[res])) = 1)

\* ------------------------------------------------------------- progress
\* Job.CalculateProgress with the percentage computed as the code computes
\* it without its rounding: the float64 is kept as the fraction num / den,
\* den > 0 (0.0 is 0/1, the cap 99.0 is 99/1).
CalculateProgressUncapped(job) ==
    IF job.total_records > 0
    THEN [num |-> job.processed_records * 100, den |-> job.total_records]
    ELSE [num |-> 0, den |-> 1]

CalculateProgress(job) ==
    LET percentage == IF job.total_records > 0
                      THEN [num |-> job.processed_records * 100, den |-> job.total_records]
                      ELSE [num |-> 0, den |-> 1]
    IN IF percentage.num >= 100 * percentage.den
          /\ job.status # JobStatusCompleted /\ job.status # JobStatusFailed
       THEN [num |-> 99, den |-> 1]
       ELSE percentage

\* p < 100 and p <= q on these fractions.
Below100(p) == p.num < 100 * p.den
AtMost(p, q) == p.num * q.den <= q.num * p.den

\* Counter values around the cap, next to the ones the jobs take.
ProgressCounters == {0, 1, 2, 99, 100, 101, 200}

\* C21: a job whose status is neither completed nor failed has a percentage
\* strictly below 100, whatever its counters: for every persisted job state,
\* and for every status and counter values around the cap.
C21_Below100UnlessTerminal ==
    /\ \A j \in DOMAIN jobs :
          jobs[j].status \notin {JobStatusCompleted, JobStatusFailed}
              => Below100(CalculateProgress(jobs[j]))
    /\ \A s \in {JobStatusPending, JobStatusProcessing, JobStatusCancelled},
          t \in ProgressCounters, p \in ProgressCounters :
          Below100(CalculateProgress([status |-> s, total_records |-> t,
                                      processed_records |-> p]))

\* A processing job whose processed_records has reached its total_records.
C21_Witness ==
    \E j \in DOMAIN jobs :
        /\ jobs[j].status = JobStatusProcessing
        /\ jobs[j].total_records > 0
        /\ jobs[j].processed_records >= jobs[j].total_records
        /\ CalculateProgress(jobs[j]) = [num |-> 99, den |-> 1]

\* ------------------------------------------------- one import, a long file
LongFileRows == 101
LongBatchSize == 100

\* An import of LongFileRows lines, all carrying the same record, read in
\* batches of LongBatchSize: one batch is flushed in pass 1, the remainder
\* after it.  The record carries its id or is invalid, so that no row asks
\* the generator for an id (GenIDs has four).
InitLongFile ==
    \E resource \in ResourceTypes, path \in {"data.csv", "data.ndjson"} :
        \E rec \in {x \in RecordsOf(resource) : x.ID # "" \/ Validate(resource, x) # <<>>} :
            /\ jobs = [j \in JobIDs |-> NewJob(JobTypeImport, resource, path)]
            /\ mem = jobs
            /\ batchSize = LongBatchSize
            /\ files = [j \in JobIDs |->
                           [exists |-> TRUE, header |-> TRUE,
                            lines |-> [i \in 1..LongFileRows |-> RowLine(rec)]]]
            /\ target = FreshTarget(resource)
            /\ workers = [w \in {"iw1"} |-> "j1"]
            /\ InitShared
            /\ faults = 0

SpecLongFile == InitLongFile /\ [][\E j \in JobIDs : ImportStep(j)]_vars

\* C22: over the persisted states of a job the percentage computed by
\* CalculateProgress never decreases: no step takes a job's row to a state
\* with a smaller percentage.
C22_PercentageNeverDecreases ==
    [][\A j \in DOMAIN jobs :
          AtMost(CalculateProgress(jobs[j]), CalculateProgress(jobs'[j]))]_vars

\* ------------------------------------- two concurrent imports, one longer
\* Two import workers, each with a job of the same resource: j1's file has
\* two records, j2's has the first of them again; the batches of the two
\* jobs reach the staging relation in any interleaving.
InitStagingOrder ==
    \E resource \in ResourceTypes :
        /\ jobs = [j \in TwoJobIDs |-> NewJob(JobTypeImport, resource, "data.ndjson")]
        /\ mem = jobs
        /\ batchSize \in 1..MaxBatchSize
        /\ \E r1, r2 \in RecordsOf(resource) :
              files = [j \in TwoJobIDs |->
                         [exists |-> TRUE, header |-> TRUE,
                          lines |-> IF j = "j1" THEN <<RowLine(r1), RowLine(r2)>>
                                    ELSE <<RowLine(r1)>>]]
        /\ target = FreshTarget(resource)
        /\ staging = [r \in ResourceTypes |-> {}]
        /\ stagingSerial = [r \in ResourceTypes |-> 0]
        /\ jobErrors = {}
        /\ pc = [j \in TwoJobIDs |-> "queued"]
        /\ loc = [j \in TwoJobIDs |-> InitLocals]
        /\ uuidGen = 0
        /\ faults = MaxFaults
        /\ promoted = {}
        /\ requests = <<>>
        /\ idempotencyKeys = {}
        /\ importChan = <<"j1", "j2">>
        /\ exportChan = <<>>
        /\ now = 0
        /\ ctxDone = FALSE
        /\ pool = PoolStarted
        /\ workers = [w \in ImportWorkerIDs |-> "idle"]

SpecStagingOrder == InitStagingOrder /\ [][NextTwoJobs]_vars

\* C23: of two staging rows of one job, the one that arrived earlier in the
\* input has the smaller staging_id, whatever another job inserts in between;
\* and the in-file duplicate statement of a job marks no row that is the
\* earliest input row of its key.
C23_StagingOrderFollowsArrival ==
    /\ [](\A r \in ResourceTypes : \A s1, s2 \in staging[r] :
             (s1.job_id = s2.job_id /\ s1.row_number < s2.row_number)
                 => s1.staging_id < s2.staging_id)
    /\ [][
           \A r \in ResourceTypes : \A s \in staging'[r] :
               (/\ pc[s.job_id] = "MarkInBatch"
                /\ s.is_duplicate
                /\ \E o \in staging[r] : o.staging_id = s.staging_id /\ ~o.is_duplicate)
               => \E e \in staging[r] : /\ e.job_id = s.job_id
                                        /\ e.row_number < s.row_number
                                        /\ SameDedupKey(r, e.f, s.f)
       ]_vars

\* The other job's batch went in between j1's two batches, and j1's second
\* row has been marked as the in-file duplicate of its first.
C23_Witness ==
    \E r \in ResourceTypes : \E s1, s2, o \in staging[r] :
        /\ s1.job_id = "j1" /\ s2.job_id = "j1" /\ o.job_id = "j2"
        /\ s1.row_number < s2.row_number
        /\ s1.staging_id < o.staging_id /\ o.staging_id < s2.staging_id
        /\ s2.is_duplicate /\ ~s1.is_duplicate

\* The staging rows of job k, over the three relations.
StagingRowsOf(tbl, k) == [r \in ResourceTypes |-> {s \in tbl[r] : s.job_id = k}]

\* C24: a step of one import job (bulk insert, a mark-* statement, cleanup)
\* leaves the staging rows of every other job unchanged, and the in-file
\* duplicate statement of a job marks a row only when a row of the same job
\* with the same key precedes it: never on account of another job's row.
C24_OtherJobsRowsUntouched ==
    [][
        /\ \A k \in DOMAIN pc :
              (pc'[k] = pc[k] /\ loc'[k] = loc[k])
                  => StagingRowsOf(staging', k) = StagingRowsOf(staging, k)
        /\ \A r \in ResourceTypes : \A s \in staging'[r] :
              (/\ pc[s.job_id] = "MarkInBatch"
               /\ s.is_duplicate
               /\ \E o \in staging[r] : o.staging_id = s.staging_id /\ ~o.is_duplicate)
              => \E e \in staging[r] : /\ e.job_id = s.job_id
                                       /\ e.staging_id < s.staging_id
                                       /\ SameDedupKey(r, e.f, s.f)
    ]_vars

\* j1 has run its in-file duplicate statement; one of its rows has the key of
\* a row that j2 staged before it, and was not marked.
C24_Witness ==
    \E r \in ResourceTypes : \E s, o \in staging[r] :
        /\ s.job_id = "j1" /\ o.job_id = "j2"
        /\ SameDedupKey(r, o.f, s.f)
        /\ o.staging_id < s.staging_id
        /\ pc["j1"] \in {"MarkExisting", "MarkFK"}
        /\ ~s.is_duplicate

\* C25: once an import job is completed or failed, the staging relations
\* eventually hold no row of that job, whichever of the two it is.
C25_StagingEventuallyEmpty ==
    \A j \in JobIDs :
        (/\ jobs[j].type = JobTypeImport
         /\ jobs[j].status \in {JobStatusCompleted, JobStatusFailed})
        ~> (\A r \in ResourceTypes : \A s \in staging[r] : s.job_id # j)

\* ------------------------------------------------------------ the parsers
\* The row numbers the callback has been given for job j: those of the rows
\* it buffered or staged.
SeenRowNumbers(j) ==
    {s.row_number : s \in {x \in staging[Resource(j)] : x.job_id = j}}
        \cup {loc[j].stagingBatch[i].row_number : i \in 1..Len(loc[j].stagingBatch)}

\* C26: for a CSV input the callback gets row k + 1 for the k-th record after
\* the header, malformed records counted; a malformed record gets no callback
\* and the records after it are still delivered; the line count is 1 after
\* construction and 1 + the number of records once parsing has ended.
C26_CSVRowNumbers ==
    /\ [](\A j \in JobIDs :
             (IsImport(j) /\ IsCSV(Format(j)) /\ pc[j] \in {"Pass1", "MarkInBatch"})
             => /\ SeenRowNumbers(j) =
                       {k + 1 : k \in {i \in 1..Consumed(j) : files[j].lines[i].kind # "bad"}}
                /\ pc[j] = "MarkInBatch" => loc[j].lineNumber = 1 + Len(files[j].lines))
    /\ [][
           \A j \in JobIDs :
               (IsCSV(Format(j)) /\ pc[j] = "OpenParser" /\ pc'[j] = "Pass1")
                   => loc'[j].lineNumber = 1
       ]_vars

\* The CSV file's first record is malformed, its second is not: parsing has
\* ended and the only callback was for row 3.
C26_Witness ==
    \E j \in JobIDs :
        /\ IsImport(j) /\ IsCSV(Format(j)) /\ pc[j] = "MarkInBatch"
        /\ Len(files[j].lines) = 2
        /\ files[j].lines[1].kind = "bad" /\ files[j].lines[2].kind # "bad"
        /\ SeenRowNumbers(j) = {3}
        /\ loc[j].lineNumber = 3

\* The lines of a line-JSON file: next to those of LinesOf, the empty line
\* and the literal null, which json.Unmarshal accepts without an error and
\* without touching the struct: the callback gets the zero-valued record.
NDJSONLinesOf(resource) ==
    LinesOf(resource) \cup
    {[kind |-> "empty"],
     [kind |-> "null",
      rec |-> CASE resource = ResourceTypeUsers -> [ID |-> "", Email |-> "", Role |-> ""]
                [] resource = ResourceTypeArticles ->
                      [ID |-> "", Slug |-> "", AuthorID |-> "", Status |-> ""]
                [] OTHER -> [ID |-> "", ArticleID |-> "", UserID |-> ""]]}

\* One import job whose uploaded file has any of the names of the alphabet
\* and up to MaxRows lines of the family that name stands for.
InitUpload ==
    \E resource \in ResourceTypes,
       path \in {"data.csv", "data.txt", "data", "data.ndjson", "data.jsonl",
                 "data.json", "DATA.JSON"} :
        /\ jobs = [j \in JobIDs |-> NewJob(JobTypeImport, resource, path)]
        /\ mem = jobs
        /\ batchSize = 1
        /\ \E lines \in SeqsUpTo(IF IsNDJSON(DetectFormat(path))
                                  THEN NDJSONLinesOf(resource) ELSE LinesOf(resource),
                                  MaxRows) :
              files = [j \in JobIDs |-> [exists |-> TRUE, header |-> TRUE, lines |-> lines]]
        /\ target = FreshTarget(resource)
        /\ workers = [w \in {"iw1"} |-> "j1"]
        /\ InitShared
        /\ faults = 0

SpecUpload == InitUpload /\ [][\E j \in JobIDs : ImportStep(j)]_vars

\* The staging rows and buffered rows of job j that came from a callback with
\* a nil record.
NilRecordRows(j) ==
    {s.row_number : s \in {x \in staging[Resource(j)] :
                             /\ x.job_id = j
                             /\ x.validation_error = ErrCodeFileParseError
                             /\ x.f = EmptyFields(Resource(j))}}
        \cup {loc[j].stagingBatch[i].row_number :
                 i \in {n \in 1..Len(loc[j].stagingBatch) :
                          /\ loc[j].stagingBatch[n].validation_error = ErrCodeFileParseError
                          /\ loc[j].stagingBatch[n].f = EmptyFields(Resource(j))}}

\* C27: the line-JSON parser calls back once per non-empty line read so far,
\* with the line's 1-based number as row (empty lines are counted, not
\* delivered), and with a nil record exactly for the lines that are not a
\* JSON object of the resource; lines after such a line are still delivered.
C27_NDJSONCallbacks ==
    \A j \in JobIDs :
        (IsNDJSON(Format(j)) /\ pc[j] \in {"Pass1", "MarkInBatch"})
        => /\ SeenRowNumbers(j) =
                  {i \in 1..Consumed(j) : files[j].lines[i].kind # "empty"}
           /\ Cardinality({x \in staging[Resource(j)] : x.job_id = j})
                  + (IF pc[j] = "Pass1" THEN Len(loc[j].stagingBatch) ELSE 0)
                  = Cardinality(SeenRowNumbers(j))
           /\ NilRecordRows(j) =
                  {i \in 1..Consumed(j) : files[j].lines[i].kind \in {"bad", "null"}}

\* C28: format detection goes by the extension, whatever its case: CSV for
\* .csv and for any other or missing extension, line-JSON for .ndjson, .jsonl
\* and .json; exactly one of IsCSV / IsNDJSON holds; and the pipeline reads the
\* job's file with the parser of the family detected from its file path (the
\* CSV parser counts the header and skips what it cannot parse, the line-JSON
\* parser delivers every non-empty line).
C28_FormatByExtension ==
    /\ \A fn \in {"data.csv", "data.txt", "data"} : DetectFormat(fn) = FormatCSV
    /\ \A fn \in {"data.ndjson", "data.jsonl"} : DetectFormat(fn) = FormatNDJSON
    /\ \A fn \in {"data.json", "DATA.JSON"} : DetectFormat(fn) = FormatJSON
    /\ \A fn \in {"data.csv", "data.txt", "data", "data.ndjson", "data.jsonl",
                  "data.json", "DATA.JSON"} :
          IsCSV(DetectFormat(fn)) # IsNDJSON(DetectFormat(fn))
    /\ \A j \in JobIDs :
          (IsImport(j) /\ pc[j] \in {"Pass1", "MarkInBatch"})
          => IF jobs[j].file_path \in {"data.ndjson", "data.jsonl", "data.json", "DATA.JSON"}
             THEN SeenRowNumbers(j) =
                      {i \in 1..loc[j].lineNumber : files[j].lines[i].kind # "empty"}
             ELSE SeenRowNumbers(j) =
                      {k + 1 : k \in {i \in 1..(loc[j].lineNumber - 1) :
                                         files[j].lines[i].kind # "bad"}}

\* A file named DATA.JSON was read as line-JSON: its malformed first line was
\* delivered as row 1.
C28_Witness ==
    \E j \in JobIDs :
        /\ jobs[j].file_path = "DATA.JSON"
        /\ pc[j] = "MarkInBatch"
        /\ Len(files[j].lines) = 2
        /\ files[j].lines[1].kind = "bad"
        /\ SeenRowNumbers(j) = {1, 2}

\* ------------------------------------------------------- order of phases
\* C29: within one import job a step writes the target relation only when
\* every input row has been written to staging and the pass-2 statements
\* have run, in the order in-file duplicates, duplicates against existing
\* rows (users, articles), foreign keys (articles, comments); the journal is
\* written and the staging rows are deleted only when no batch is left to
\* upsert.
C29_PhasesInOrder ==
    [][
        \A j \in JobIDs :
            IsImport(j) =>
            /\ target' # target
                  => /\ pc[j] = "Promote"
                     /\ {s.row_number : s \in {x \in staging[Resource(j)] : x.job_id = j}}
                            = {d.row : d \in DeliveredRows(j)}
            /\ (pc'[j] = "Promote" /\ pc[j] # "Promote") => pc[j] = "GetValid"
            /\ (pc'[j] = "GetValid" /\ pc[j] # "GetValid")
                  => pc[j] = IF Resource(j) = ResourceTypeUsers THEN "MarkExisting" ELSE "MarkFK"
            /\ (pc'[j] = "MarkFK" /\ pc[j] # "MarkFK")
                  => /\ Resource(j) # ResourceTypeUsers
                     /\ pc[j] = IF Resource(j) = ResourceTypeArticles
                                THEN "MarkExisting" ELSE "MarkInBatch"
            /\ (pc'[j] = "MarkExisting" /\ pc[j] # "MarkExisting")
                  => Resource(j) # ResourceTypeComments /\ pc[j] = "MarkInBatch"
            /\ (pc'[j] = "MarkInBatch" /\ pc[j] # "MarkInBatch")
                  => pc[j] = "Pass1" /\ Consumed(j) = Len(files[j].lines)
            /\ (\E s \in staging[Resource(j)] :
                    \E t \in staging'[Resource(j)] :
                        /\ t.staging_id = s.staging_id
                        /\ (t.is_valid # s.is_valid \/ t.is_duplicate # s.is_duplicate))
                  => pc[j] \in {"MarkInBatch", "MarkExisting", "MarkFK"}
            /\ jobErrors' # jobErrors => pc[j] = "Promote" /\ loc[j].cursor = <<>>
            /\ (\E s \in staging[Resource(j)] : s \notin staging'[Resource(j)]
                                                 /\ ~\E t \in staging'[Resource(j)] :
                                                        t.staging_id = s.staging_id)
                  => /\ pc[j] = "Promote" /\ loc[j].cursor = <<>>
                     /\ pc'[j] = "FinalProgress"
    ]_vars

\* An articles import has upserted a row, after all three pass-2 statements.
C29_Witness ==
    \E j \in JobIDs :
        /\ IsImport(j) /\ Resource(j) = ResourceTypeArticles
        /\ pc[j] = "Promote"
        /\ \E p \in promoted : p.job = j
        /\ \E s \in staging[Resource(j)] : s.job_id = j /\ ~s.is_valid

\* ------------------------------------------ duplicates against the target
\* The target row t carries the natural key of the staged columns f (email
\* for users, slug for articles, compared in lower case).
TargetRowHasKey(resource, t, f) ==
    IF resource = ResourceTypeUsers
    THEN f.email # NULL /\ ToLower(t.email) = ToLower(f.email)
    ELSE f.slug # NULL /\ ToLower(t.slug) = ToLower(f.slug)

\* C30: the statement that marks duplicates against existing rows (users,
\* articles), when it succeeds, marks a still-valid staging row of the job as
\* duplicate exactly when a target row carries its natural key and the
\* staging row's id is absent or is not the id of that target row; so a row
\* with the id of one target row and the key of another is marked.
C30_MarkedIffKeyOfAnotherRow ==
    [][
        \A j \in JobIDs :
            (IsImport(j) /\ pc[j] = "MarkExisting" /\ pc'[j] # "MarkExisting"
                /\ faults' = faults)
            => \A s \in staging[Resource(j)] :
                  (s.job_id = j /\ s.is_valid)
                  => ((\E t \in staging'[Resource(j)] :
                          t.staging_id = s.staging_id /\ t.is_duplicate)
                      <=> (\E t \in target[Resource(j)] :
                              /\ TargetRowHasKey(Resource(j), t, s.f)
                              /\ (s.f.id = NULL \/ s.f.id # t.id)))
    ]_vars

\* -------------------------------------------------- upsert conflict path
\* The target row t is the one the entity e conflicts with on the key of its
\* relation: the email of another row (users), the slug or the id (articles),
\* the id (comments).
ConflictsOnKey(resource, e, t) ==
    CASE resource = ResourceTypeUsers -> t.email = e.email /\ t.id # e.id
      [] resource = ResourceTypeArticles -> t.slug = e.slug \/ t.id = e.id
      [] OTHER -> t.id = e.id

\* The row t2 is t with its non-key columns overwritten from e.
OverwrittenFrom(resource, t2, t, e) ==
    CASE resource = ResourceTypeUsers -> t2.email = t.email /\ t2.role = e.role
      [] resource = ResourceTypeArticles ->
            /\ t2.slug = t.slug \/ t2.id = t.id
            /\ t2.author_id = e.author_id /\ t2.status = e.status
      [] OTHER -> t2.id = t.id /\ t2.article_id = e.article_id /\ t2.user_id = e.user_id

\* The entities the next promotion step hands to CreateBatch.
NextEntities(j) ==
    ConvertRows(Resource(j),
                RowsToPromote(Resource(j),
                              SubSeq(loc[j].cursor, 1, Min(batchSize, Len(loc[j].cursor)))),
                uuidGen)

\* C31: a batch upsert of one entity that conflicts with exactly one target
\* row on the key of its relation (users: the email of a row with another id;
\* articles: slug or id; comments: id), and that breaks no CHECK or foreign
\* key, raises no constraint error and leaves that row with the entity's
\* non-key columns.
C31_KeyConflictUpdates ==
    \A j \in JobIDs :
        (IsImport(j) /\ pc[j] = "Promote" /\ Len(NextEntities(j)) = 1)
        => LET e == NextEntities(j)[1]
               res == CreateBatch(Resource(j), target, NextEntities(j))
               hit == {t \in target[Resource(j)] : ConflictsOnKey(Resource(j), e, t)}
           IN (/\ Cardinality(hit) = 1
               /\ ~CheckViolation(Resource(j), e)
               /\ ~ForeignKeyViolation(Resource(j), e, target))
              => /\ ~res.err
                 /\ \A t \in hit :
                       \E t2 \in res.table : OverwrittenFrom(Resource(j), t2, t, e)

\* ------------------------------------------------------ archived articles
\* Article records whose status is archived, next to a draft and to a record
\* the validator rejects.
ArchivedArticleImports ==
    {[ID |-> "",   Slug |-> "s-1", AuthorID |-> "u1", Status |-> "archived"],
     [ID |-> "a9", Slug |-> "s-2", AuthorID |-> "u1", Status |-> "Archived"],
     [ID |-> "",   Slug |-> "s-1", AuthorID |-> "u1", Status |-> "draft"],
     [ID |-> "",   Slug |-> "S 1", AuthorID |-> "u1", Status |-> "draft"]}

\* An articles import of up to MaxRows such records.
InitArchived ==
    \E path \in {"data.csv", "data.ndjson"} :
        /\ jobs = [j \in JobIDs |-> NewJob(JobTypeImport, ResourceTypeArticles, path)]
        /\ mem = jobs
        /\ batchSize \in 1..MaxBatchSize
        /\ \E lines \in SeqsUpTo({RowLine(rec) : rec \in ArchivedArticleImports}, MaxRows) :
              files = [j \in JobIDs |-> [exists |-> TRUE, header |-> TRUE, lines |-> lines]]
        /\ target \in {FreshTarget(ResourceTypeArticles), SeededTarget}
        /\ workers = [w \in {"iw1"} |-> "j1"]
        /\ InitShared
        /\ faults = 0

SpecArchived == InitArchived /\ [][\E j \in JobIDs : ImportStep(j)]_vars

\* The rows of job j, buffered or staged, whose status is archived.
ArchivedRows(j) ==
    {s \in staging[Resource(j)] : s.job_id = j /\ s.f.status = "archived"}
    \cup {loc[j].stagingBatch[i] : i \in {k \in 1..Len(loc[j].stagingBatch) :
                                           loc[j].stagingBatch[k].f.status = "archived"}}

\* C32: an article row whose status is archived, in any letter case, gets the
\* validation error INVALID_STATUS, is staged with is_valid = FALSE and is
\* never part of a batch handed to the upsert.
C32_ArchivedRejected ==
    \A j \in JobIDs :
        (IsImport(j) /\ Resource(j) = ResourceTypeArticles)
        => /\ \A s \in ArchivedRows(j) :
                 /\ ~s.is_valid
                 /\ \E i \in 1..Len(loc[j].validationErrors) :
                       /\ loc[j].validationErrors[i].row = s.row_number
                       /\ loc[j].validationErrors[i].code = ErrCodeInvalidStatus
           /\ pc[j] = "Promote"
                 => \A i \in 1..Len(NextEntities(j)) : NextEntities(j)[i].status # "archived"

\* ------------------------------------------------------- pass-2 counters
\* The staging rows of job j.
StagingOfJob(j) == {s \in staging[Resource(j)] : s.job_id = j}

\* The staging rows of job j that pass 2 left valid and not duplicate.
SurvivorsOf(j) == {s \in StagingOfJob(j) : s.is_valid /\ ~s.is_duplicate}

\* C33: when pass 2 of an import has run without a database error, the valid
\* counter is the number of the job's staging rows that are valid and not
\* duplicate, the invalid counter is the number of its other staging rows,
\* neither is negative, they sum to the total, and the job's row carries them
\* as its successful and failed counts.
C33_Pass2Counters ==
    \A j \in JobIDs :
        (IsImport(j) /\ pc[j] = "GetValid" /\ faults = 0)
        => /\ loc[j].validRows = Cardinality(SurvivorsOf(j))
           /\ loc[j].invalidRows = Cardinality(StagingOfJob(j) \ SurvivorsOf(j))
           /\ loc[j].validRows >= 0 /\ loc[j].invalidRows >= 0
           /\ loc[j].validRows + loc[j].invalidRows = loc[j].totalRows
           /\ jobs[j].successful_records = loc[j].validRows
           /\ jobs[j].failed_records = loc[j].invalidRows

\* ------------------------------------------------------ the pass-1 buffer
\* C34: during pass 1 the buffer of rows waiting to be staged never holds
\* more than BatchSize rows, no bulk insert adds more than BatchSize rows to
\* staging, and a flush made while the file is being read writes the job's
\* processed, successful and failed counters (unless that write fails).
C34_BufferBounded ==
    /\ [](\A j \in JobIDs : Len(loc[j].stagingBatch) <= batchSize)
    /\ [][
          \A j \in JobIDs :
              /\ Cardinality({s \in staging'[Resource(j)] :
                                 \A t \in staging[Resource(j)] :
                                     t.staging_id # s.staging_id}) <= batchSize
              /\ (/\ pc[j] = "Pass1" /\ pc'[j] = "Pass1"
                  /\ staging'[Resource(j)] # staging[Resource(j)]
                  /\ faults' = faults)
                 => /\ jobs'[j].processed_records = loc'[j].totalRows
                    /\ jobs'[j].successful_records = loc'[j].validRows
                    /\ jobs'[j].failed_records = loc'[j].invalidRows
      ]_vars

\* ------------------------------------------------- one job per worker
\* The jobs whose pipeline a worker is running.
InProgress == {j \in DOMAIN pc : pc[j] \notin {"queued", "done"}}

\* The workers that hold job j.
HoldersOf(j) == {w \in DOMAIN workers : workers[w] = j}

\* C35: a queued request is received by at most one worker and its pipeline
\* runs at most once; a worker receives a request only when idle, and is idle
\* again only when the processing of its request has returned; so no more
\* pipelines are in progress than there are workers.
C35_OneJobPerWorker ==
    /\ [](/\ \A j \in DOMAIN pc :
                /\ Cardinality(HoldersOf(j)) <= 1
                /\ pc[j] \notin {"queued", "done"} => HoldersOf(j) # {}
          /\ Cardinality(InProgress) <= Cardinality(DOMAIN workers))
    /\ [][
          /\ \A j \in DOMAIN pc :
                /\ pc[j] # "queued" => pc'[j] # "queued"
                /\ pc[j] = "done" => pc'[j] = "done"
                /\ (HoldersOf(j) # {} /\ pc[j] # "done") => HoldersOf(j)' = HoldersOf(j)
                /\ (HoldersOf(j) = {} /\ HoldersOf(j)' # {})
                      => pc[j] = "queued" /\ Len(importChan') = Len(importChan) - 1
          /\ \A w \in DOMAIN workers :
                workers'[w] # workers[w]
                   => \/ workers[w] = "idle" /\ workers'[w] \in DOMAIN pc
                      \/ /\ workers[w] \in DOMAIN pc /\ pc[workers[w]] = "done"
                         /\ workers'[w] = "idle"
      ]_vars

\* Two workers are running the pipelines of two different jobs.
C35_Witness ==
    /\ Cardinality(InProgress) = 2
    /\ \A j \in InProgress : Cardinality(HoldersOf(j)) = 1
    /\ workers["iw1"] # workers["iw2"]

\* ------------------------------------------------ a dequeued job finishes
\* The worker goroutine that holds a job keeps running: a step of the
\* pipeline that can be taken is taken.  Database errors stay possible.
SpecFaults == Init /\ [][Next]_vars /\ WF_vars(Next)

\* C36: a job a worker has dequeued eventually has the persisted status
\* completed or failed, whatever happens on the way: the file cannot be
\* opened, the pipeline returns an error, or a status update (SetStarted,
\* SetFailed, SetCompleted) returns a database error.
C36_DequeuedJobTerminates ==
    \A j \in JobIDs :
        HeldByWorker(j) ~> (jobs[j].status \in {JobStatusCompleted, JobStatusFailed})

\* --------------------------------------------- accepted jobs get served
\* processImportJob / processExportJob returned.  The pipeline between the
\* receive and the return is the one of ImportStep and of the export steps;
\* here only its end is kept: without a database error it leaves the job
\* completed or failed.
WorkerFinish(w) ==
    /\ w \in DOMAIN workers
    /\ workers[w] \in DOMAIN jobs
    /\ workers[w] \notin DOMAIN pc
    /\ \E status \in {JobStatusCompleted, JobStatusFailed} :
          jobs' = [jobs EXCEPT ![workers[w]].status = status,
                               ![workers[w]].started_at = "set",
                               ![workers[w]].completed_at = "set"]
    /\ workers' = [workers EXCEPT ![w] = "idle"]
    /\ UNCHANGED <<mem, pc, pipelineVars, requests, idempotencyKeys, importChan,
                   exportChan, now, ctxDone, pool>>

NextServe ==
    \/ \E r \in RequestIDs :
          \/ ApiMiddleware(r)
          \/ ApiLookup(r)
          \/ ApiCreateJob(r)
          \/ ApiStoreKey(r)
          \/ ApiSubmit(r)
    \/ \E w \in WorkerIDs : WorkerReceive(w) \/ WorkerFinish(w)
    \/ Tick

\* The handlers and the pool while the workers keep running: a worker that
\* can receive or return does so.
SpecServe ==
    InitApi /\ [][NextServe]_vars
    /\ \A w \in WorkerIDs : WF_vars(WorkerReceive(w) \/ WorkerFinish(w))

\* C37: a job whose POST handler stored the job row and answered 202 is
\* eventually taken up by a worker: it does not stay pending forever, also
\* when the queue was full when it was submitted.
C37_AcceptedJobServed ==
    \A r \in RequestIDs :
        (requests[r].pc = "done" /\ requests[r].code = 202 /\ requests[r].created # NULL)
            ~> (\E j \in DOMAIN jobs :
                   j = requests[r].created /\ jobs[j].status # JobStatusPending)

\* ------------------------------------------- failure before the upsert
\* Job j is in pass 1 or pass 2, or is being failed for an error of pass 1
\* or pass 2 (any error but that of the batch upsert).
BeforeFirstUpsert(j) ==
    \/ pc[j] \in {"queued", "SetStarted", "OpenParser", "Pass1", "MarkInBatch",
                  "MarkExisting", "MarkFK", "GetValid"}
    \/ /\ pc[j] \in {"HandleFailure", "done"}
       /\ loc[j].errMsg \notin {NULL, "failed to insert batch"}

\* C39: an import job that fails in pass 1 or pass 2 has not changed the
\* target relations: no step it takes up to and including its failure
\* writes users, articles or comments, and none of its rows was upserted.
C39_FailureLeavesTarget ==
    /\ [](\A j \in JobIDs :
             (IsImport(j) /\ BeforeFirstUpsert(j)) => ~\E p \in promoted : p.job = j)
    /\ [][\A j \in JobIDs :
             (IsImport(j) /\ BeforeFirstUpsert(j)) => target' = target]_vars

\* A users import was failed by an error of a pass-2 statement, its rows
\* staged.
C39_Witness ==
    \E j \in JobIDs :
        /\ IsImport(j) /\ pc[j] = "done"
        /\ jobs[j].status = JobStatusFailed
        /\ loc[j].errMsg = "failed to mark duplicates"
        /\ \E s \in StagingOfJob(j) : s.is_valid

\* ------------------------------------------------- Pool.Start / Pool.Stop
MaxCalls == 4
MaxStarts == 2

\* The goroutines the n-th Start that finds the pool not running launches
\* (one import and one export worker each).
GoroutinesOf(n) == IF n = 1 THEN {"iw1", "ew1"} ELSE {"iw2", "ew2"}
GenerationOf(w) == IF w \in GoroutinesOf(1) THEN 1 ELSE 2

\* A pool fresh from NewPool, one import job waiting in its channel.
InitPool ==
    /\ jobs = [j \in JobIDs |-> NewJob(JobTypeImport, ResourceTypeUsers, "data.csv")]
    /\ mem = jobs
    /\ pc = <<>>
    /\ loc = <<>>
    /\ files = <<>>
    /\ batchSize = 1
    /\ staging = [r \in ResourceTypes |-> {}]
    /\ stagingSerial = [r \in ResourceTypes |-> 0]
    /\ target = SeededTarget
    /\ jobErrors = {}
    /\ uuidGen = 0
    /\ faults = 0
    /\ promoted = {}
    /\ requests = <<>>
    /\ idempotencyKeys = {}
    /\ importChan = <<"j1">>
    /\ exportChan = <<>>
    /\ now = 0
    /\ ctxDone = FALSE
    /\ pool = PoolNew
    /\ workers = <<>>

PoolCalls == pool.callers["c1"].n + pool.callers["c2"].n

\* Pool.Start up to p.mu.Unlock(): return when running, else set running.
PoolStartLock(c) ==
    /\ ~pool.panicked
    /\ pool.callers[c].at = "idle"
    /\ PoolCalls < MaxCalls
    /\ pool.running \/ pool.starts < MaxStarts
    /\ pool' = IF pool.running
               THEN [pool EXCEPT !.callers[c].call = "Start", !.callers[c].n = @ + 1]
               ELSE [pool EXCEPT !.running = TRUE, !.starts = @ + 1,
                                 !.callers[c] = [at |-> "spawn", call |-> "Start",
                                                 n |-> @.n + 1, gen |-> pool.starts + 1]]
    /\ UNCHANGED <<jobs, mem, pc, pipelineVars, requests, idempotencyKeys, importChan,
                   exportChan, now, ctxDone, workers>>

\* Pool.Start after the unlock: wg.Add(1); go p.importWorker / p.exportWorker.
PoolStartSpawn(c) ==
    /\ ~pool.panicked
    /\ pool.callers[c].at = "spawn"
    /\ workers' = [w \in DOMAIN workers \cup GoroutinesOf(pool.callers[c].gen) |->
                     IF w \in DOMAIN workers THEN workers[w] ELSE "idle"]
    /\ pool' = [pool EXCEPT !.callers[c].at = "idle"]
    /\ UNCHANGED <<jobs, mem, pc, pipelineVars, requests, idempotencyKeys, importChan,
                   exportChan, now, ctxDone>>

\* Pool.Stop up to p.mu.Unlock(): return when not running, else clear running.
PoolStopLock(c) ==
    /\ ~pool.panicked
    /\ pool.callers[c].at = "idle"
    /\ PoolCalls < MaxCalls
    /\ pool' = IF ~pool.running
               THEN [pool EXCEPT !.callers[c].call = "Stop", !.callers[c].n = @ + 1]
               ELSE [pool EXCEPT !.running = FALSE, !.stops = @ + 1,
                                 !.callers[c].at = "close", !.callers[c].call = "Stop",
                                 !.callers[c].n = @ + 1]
    /\ UNCHANGED <<jobs, mem, pc, pipelineVars, requests, idempotencyKeys, importChan,
                   exportChan, now, ctxDone, workers>>

\* close(p.quit): closing a closed channel panics, which ends the process.
PoolStopClose(c) ==
    /\ ~pool.panicked
    /\ pool.callers[c].at = "close"
    /\ pool' = IF pool.quit = "closed"
               THEN [pool EXCEPT !.panicked = TRUE]
               ELSE [pool EXCEPT !.quit = "closed", !.callers[c].at = "wait"]
    /\ UNCHANGED <<jobs, mem, pc, pipelineVars, requests, idempotencyKeys, importChan,
                   exportChan, now, ctxDone, workers>>

\* p.wg.Wait() returns: every goroutine added to the group has called Done.
PoolStopWait(c) ==
    /\ ~pool.panicked
    /\ pool.callers[c].at = "wait"
    /\ \A w \in DOMAIN workers : workers[w] = "stopped"
    /\ pool' = [pool EXCEPT !.callers[c].at = "idle"]
    /\ UNCHANGED <<jobs, mem, pc, pipelineVars, requests, idempotencyKeys, importChan,
                   exportChan, now, ctxDone, workers>>

NextPool ==
    \/ \E c \in CallerIDs :
          \/ PoolStartLock(c)
          \/ PoolStartSpawn(c)
          \/ PoolStopLock(c)
          \/ PoolStopClose(c)
          \/ PoolStopWait(c)
    \/ \E w \in WorkerIDs : WorkerReceive(w) \/ WorkerFinish(w) \/ WorkerStop(w)
    \/ CancelContext

SpecPool == InitPool /\ [][NextPool]_vars

\* Caller c returns from Stop in this step.
StopReturns(c) ==
    /\ pool'.callers[c].at = "idle"
    /\ pool'.callers[c].call = "Stop"
    /\ pool.callers[c].at = "wait" \/ pool'.callers[c].n # pool.callers[c].n

\* C38: whatever the sequence and interleaving of Start and Stop calls, the
\* quit channel is never closed a second time, a Stop call returns only when
\* every worker goroutine started so far has exited, and a worker goroutine
\* exits only when the context is cancelled or Stop was called after the
\* Start that launched it.
C38_StartStopLifecycle ==
    /\ [](~pool.panicked)
    /\ [][
          /\ \A c \in CallerIDs :
                StopReturns(c) => \A w \in DOMAIN workers : workers[w] = "stopped"
          /\ \A w \in DOMAIN workers :
                (workers[w] # "stopped" /\ workers'[w] = "stopped")
                   => ctxDone \/ pool.stops >= GenerationOf(w)
      ]_vars

====
